---------------------------- MODULE Spec2Model ----------------------------
(***************************************************************************)
(* A model of the narrative-state engine (engine/state_manager.py with the *)
(* schemas it mutates) and of the combat engine (engine/rules_engine.py).  *)
(*                                                                         *)
(* Python dictionaries are modelled as functions whose DOMAIN is the key   *)
(* set together with a sequence of keys where the insertion order is read  *)
(* by the code; Python lists are sequences.  Timestamps (datetime.now())   *)
(* and log lines are left out: no operation reads them back.               *)
(***************************************************************************)
EXTENDS Integers, Sequences, FiniteSets, TLC

VARIABLES
    initialized,   \* StateManager.game_state is not None
    game_state,    \* StateManager.game_state (without the character object)
    character,     \* StateManager.character, aliased by game_state.character
    ret,           \* what the last StateManager call returned
    save_file,     \* the file save_state writes: <<>> before, <<data>> after
    response,      \* what the last NewDMEngine.process_input returned or raised
    check_engine,  \* RulesEngine._check_engine: <<>> for None, <<character>>
    check,         \* what the last check of the RulesEngine returned or raised
    phase,         \* CombatEngine.phase
    combatants,    \* CombatEngine.combatants: id -> Combatant
    comb_keys,     \* insertion order of the keys of CombatEngine.combatants
    turn_order,    \* CombatEngine.turn_order
    current_turn_index, \* CombatEngine.current_turn_index
    round,         \* CombatEngine.round
    enemies,       \* the caller's list of created, not yet registered enemies
    cret           \* what the last CombatEngine call returned

world_vars == <<initialized, game_state, character, ret>>
dm_vars == <<response>>
rules_vars == <<check_engine, check>>
file_vars == <<save_file>>
combat_vars == <<phase, combatants, comb_keys, turn_order, current_turn_index,
                 round, enemies, cret>>
vars == <<world_vars, dm_vars, rules_vars, combat_vars, file_vars>>

(***************************************************************************)
(* Bounds of the model.                                                    *)
(***************************************************************************)
\* successful moves and significant actions recorded in action_history
MaxHistory == 3
\* next_turn is not called once round has reached this value
MaxRound == 2
\* enemies created before one start_combat
MaxEnemies == 2
\* responses the DM engine applies in one session
MaxTurns == 2

\* events recorded in the relationship histories of one session
MaxEvents == 2

\* Python's None
NoneVal == "None"

\* Sequences: the elements, membership (Python's "x in list").
Range(s) == {s[i] : i \in 1..Len(s)}

InList(x, s) == \E i \in 1..Len(s) : s[i] = x

\* the list a comprehension builds
AsList(s) == SelectSeq(s, LAMBDA x : TRUE)

\* d[k] = v on a Python dict modelled as a function
DictSet(d, k, v) == IF k \in DOMAIN d THEN [d EXCEPT ![k] = v] ELSE d @@ (k :> v)

EmptyDict == [x \in {} |-> NoneVal]

Max2(a, b) == IF a >= b THEN a ELSE b

Min2(a, b) == IF a <= b THEN a ELSE b

(***************************************************************************)
(* The campaign the StateManager is constructed with: a node table with    *)
(* three nodes, their exits and their significant actions.                 *)
(***************************************************************************)
NodeIds == {"tavern", "cellar", "vault"}

\* a node id that is not a key of the node table
UnknownNode == "nowhere"

\* Chapter.starting_node of the campaign's first chapter
StartingNode == "tavern"

FlagNames == {"has_key", "door_open"}

NpcIds == {"ameiko", "marcus", "guard", "guard_captain"}

\* NodeExit
MkExit(id, target, always, rflags, ritems) ==
    [exit_id |-> id, target_node |-> target, always_available |-> always,
     requires_flags |-> rflags, requires_items |-> ritems]

\* Node.exits, in the dict's order
NodeExits(node) ==
    CASE node = "tavern" ->
           << MkExit("to_cellar", "cellar", TRUE, <<>>, <<>>),
              MkExit("to_vault", "vault", FALSE, <<"has_key">>, <<>>) >>
      [] node = "cellar" ->
           << MkExit("up", "tavern", TRUE, <<"has_key">>, <<>>),
              MkExit("tunnel", "vault", FALSE, <<"has_key">>, <<"rope">>) >>
      [] node = "vault" ->
           << MkExit("out", "tavern", FALSE, <<>>, <<>>),
              MkExit("hatch", "cellar", FALSE, <<"door_open", "has_key">>, <<"lantern">>) >>
      [] OTHER -> <<>>

\* RelationshipUpdate
MkUpdate(npc, d, t) == [npc_id |-> npc, disposition |-> d, trust |-> t]

\* SignificantAction with the dataclass defaults
DefaultAction(id) ==
    [action_id |-> id,
     requires_flags |-> <<>>, requires_items |-> <<>>,
     requires_relationship |-> <<>>,
     sets_flags |-> <<>>, clears_flags |-> <<>>,
     grants_items |-> <<>>, removes_items |-> <<>>,
     grants_quest |-> NoneVal, completes_objective |-> <<>>,
     updates_relationships |-> <<>>, grants_xp |-> 0,
     success_prompt |-> NoneVal]

\* Node.significant_actions of each node
NodeActions(node) ==
    CASE node = "tavern" ->
           << [DefaultAction("befriend") EXCEPT
                  !.sets_flags = <<"door_open">>,
                  !.updates_relationships = <<MkUpdate("ameiko", 30, 60)>>,
                  !.grants_xp = 10],
              [DefaultAction("take_key") EXCEPT
                  !.requires_flags = <<"door_open">>,
                  !.requires_items = <<"lantern">>,
                  !.sets_flags = <<"has_key">>,
                  !.clears_flags = <<"door_open">>,
                  !.grants_items = <<"key">>,
                  !.removes_items = <<"lantern">>,
                  !.grants_quest = "find_vault",
                  !.success_prompt = "You pocket the key."],
              [DefaultAction("ask_favor") EXCEPT
                  !.requires_relationship = <<<<"marcus", 40>>, <<"ameiko", 60>>>>,
                  !.updates_relationships = <<MkUpdate("marcus", -20, 0)>>,
                  !.completes_objective = <<"find_vault", "reach">>,
                  !.grants_xp = 25] >>
      [] node = "cellar" ->
           << [DefaultAction("pry") EXCEPT
                  !.requires_items = <<"rope">>,
                  !.requires_relationship = <<<<"ameiko", 60>>>>,
                  !.clears_flags = <<"has_key">>] >>
      [] OTHER -> <<>>

ActionIds == {"befriend", "take_key", "ask_favor", "pry"}

\* an action id no node defines
UnknownAction == "dance"

\* the inventories a session's character may be constructed with
Inventories == { <<>>, <<"rope">>, <<"lantern">>, <<"lantern", "rope">> }


(***************************************************************************)
(* engine/schemas/game_state.py                                            *)
(***************************************************************************)
\* NPCRelationship(npc_id=npc_id) with the dataclass defaults
NewRelationship(npc_id) ==
    [npc_id |-> npc_id, disposition |-> 50, trust |-> 50, met |-> FALSE,
     history |-> <<>>]

\* ConversationState() with the dataclass defaults
NewConversation ==
    [current_speaker |-> NoneVal, mode |-> "exploration", recent_exchanges |-> <<>>]

\* the GameState built by initialize_new_game
NewGameState ==
    [location |-> [node_id |-> StartingNode, previous_node |-> NoneVal],
     story_progress |-> [flags |-> EmptyDict, quests |-> <<>>],
     relationships |-> EmptyDict,
     conversation |-> NewConversation,
     action_history |-> <<>>,
     nodes_visited |-> <<StartingNode>>]

\* StoryProgress.has_flag: flags.get(flag, False)
StoryProgress_has_flag(flags, flag) ==
    IF flag \in DOMAIN flags THEN flags[flag] ELSE FALSE

\* StoryProgress.set_flag
StoryProgress_set_flag(gs, flag, value) ==
    [gs EXCEPT !.story_progress.flags = DictSet(@, flag, value)]

\* GameState.record_action (details: <<>> for None, <<d>> for a dict d)
record_action(gs, action, details) ==
    [gs EXCEPT !.action_history =
        Append(@, [action |-> action, details |-> details])]

\* GameState.get_relationship: get or create
get_relationship(gs, npc_id) ==
    IF npc_id \notin DOMAIN gs.relationships
    THEN [gs EXCEPT !.relationships = DictSet(@, npc_id, NewRelationship(npc_id))]
    ELSE gs

\* NPCRelationship.modify_disposition
modify_disposition(rel, amount, event) ==
    [rel EXCEPT
        !.disposition = Max2(-100, Min2(100, rel.disposition + amount)),
        !.history = Append(@, [event |-> event, change |-> amount])]

\* an append that does not look for the node in the list
VisitedAppend_always(visited, node_id) == Append(visited, node_id)

\* the list append of GameState.move_to_node
VisitedAppend(visited, node_id) ==
    IF ~InList(node_id, visited) THEN Append(visited, node_id) ELSE visited

\* GameState.move_to_node
GameState_move_to_node(gs, node_id) ==
    LET g1 == [gs EXCEPT
                 !.location.previous_node = gs.location.node_id,
                 !.location.node_id = node_id,
                 !.nodes_visited = VisitedAppend(@, node_id)]
    IN record_action(g1, <<"moved_to", node_id>>, <<>>)

(***************************************************************************)
(* engine/schemas/campaign.py                                              *)
(***************************************************************************)
\* a flag test that asks whether the flag was ever written, not for its value
AllFlags_present(flags, required) ==
    \A i \in 1..Len(required) : required[i] \in DOMAIN flags

\* all(flags.get(f, False) for f in requires_flags)
AllFlags(flags, required) ==
    \A i \in 1..Len(required) : StoryProgress_has_flag(flags, required[i])

\* all(i in inventory for i in requires_items)
AllItems(inventory, required) ==
    \A i \in 1..Len(required) : InList(required[i], inventory)

\* the test of one exit in Node.get_available_exits
ExitAvailable(exit_data, flags, inventory) ==
    IF exit_data.always_available
    THEN TRUE
    ELSE AllFlags(flags, exit_data.requires_flags)
         /\ AllItems(inventory, exit_data.requires_items)

RECURSIVE FilterExits(_, _, _, _)
\* the loop of Node.get_available_exits from the i-th exit on
FilterExits(exits, i, flags, inventory) ==
    IF i > Len(exits)
    THEN <<>>
    ELSE (IF ExitAvailable(exits[i], flags, inventory) THEN <<exits[i]>> ELSE <<>>)
         \o FilterExits(exits, i + 1, flags, inventory)

\* Node.get_available_exits
Node_get_available_exits(node, flags, inventory) ==
    FilterExits(NodeExits(node), 1, flags, inventory)

(***************************************************************************)
(* engine/state_manager.py                                                 *)
(***************************************************************************)
\* StateManager.get_current_node: the node id, or None
get_current_node ==
    IF ~initialized THEN NoneVal
    ELSE IF game_state.location.node_id \in NodeIds
         THEN game_state.location.node_id
         ELSE NoneVal

\* StateManager.get_available_exits on a given state
AvailableExitsOf(gs, ch) ==
    IF gs.location.node_id \notin NodeIds
    THEN <<>>
    ELSE Node_get_available_exits(gs.location.node_id,
                                  gs.story_progress.flags, ch.inventory)

\* StateManager.get_available_exits
get_available_exits ==
    IF get_current_node = NoneVal THEN <<>> ELSE AvailableExitsOf(game_state, character)

\* the valid_exit test of StateManager.move_to_node
ValidExit(node_id) ==
    \E i \in 1..Len(get_available_exits) : get_available_exits[i].target_node = node_id

\* a move_to_node that refuses targets outside the available exits
NodeUnknown_gated(node_id) == node_id \notin NodeIds \/ ~ValidExit(node_id)

\* "node_id not in self.nodes" of StateManager.move_to_node
NodeUnknown(node_id) == node_id \notin NodeIds

\* StateManager.has_flag
has_flag(gs, flag) == StoryProgress_has_flag(gs.story_progress.flags, flag)

\* StateManager.modify_relationship
modify_relationship(gs, npc_id, disposition, trust, event) ==
    LET g1 == get_relationship(gs, npc_id)
        r0 == g1.relationships[npc_id]
        r1 == IF disposition # 0
              THEN modify_disposition(r0, disposition,
                                      IF event = "" THEN "player_action" ELSE event)
              ELSE r0
        r2 == IF trust # 0
              THEN [r1 EXCEPT !.trust = Max2(0, Min2(100, r1.trust + trust))]
              ELSE r1
    IN [g1 EXCEPT !.relationships[npc_id] = r2]

\* StateManager.start_quest
start_quest(gs, quest_id) ==
    [gs EXCEPT !.story_progress.quests =
        Append(@, [quest_id |-> quest_id, name |-> quest_id, description |-> "",
                   status |-> "active", objectives |-> <<>>])]

\* the (quest, objective) positions StateManager.complete_objective matches
ObjectiveHits(gs, quest_id, objective_id) ==
    LET qs == gs.story_progress.quests
    IN { p \in (1..Len(qs)) \X (1..MaxHistory + 1) :
           /\ qs[p[1]].quest_id = quest_id
           /\ p[2] <= Len(qs[p[1]].objectives)
           /\ qs[p[1]].objectives[p[2]].id = objective_id }

\* StateManager.complete_objective: the first match is completed, else a warning
complete_objective(gs, quest_id, objective_id) ==
    LET hits == ObjectiveHits(gs, quest_id, objective_id)
    IN IF hits = {}
       THEN gs
       ELSE LET p == CHOOSE h \in hits :
                       \A k \in hits : h[1] < k[1] \/ (h[1] = k[1] /\ h[2] <= k[2])
            IN [gs EXCEPT
                  !.story_progress.quests[p[1]].objectives[p[2]].completed = TRUE]

\* the effects dict of execute_significant_action before any effect
NoEffects ==
    [flags_set |-> <<>>, flags_cleared |-> <<>>, relationships_modified |-> <<>>,
     quest_started |-> NoneVal, objective_completed |-> <<>>, xp_granted |-> 0]

\* the action of the current node with this id, as a set (empty: no such action)
CurrentAction(action_id) ==
    IF get_current_node = NoneVal
    THEN {}
    ELSE { NodeActions(get_current_node)[i] :
             i \in { j \in 1..Len(NodeActions(get_current_node)) :
                       NodeActions(get_current_node)[j].action_id = action_id } }

\* the first flag of requires_flags that is not set, or None
FirstMissingFlag(gs, required) ==
    LET miss == { i \in 1..Len(required) : ~has_flag(gs, required[i]) }
    IN IF miss = {} THEN NoneVal
       ELSE required[CHOOSE i \in miss : \A j \in miss : i <= j]

\* the first item of requires_items that is not in the inventory, or None
FirstMissingItem(inventory, required) ==
    LET miss == { i \in 1..Len(required) : ~InList(required[i], inventory) }
    IN IF miss = {} THEN NoneVal
       ELSE required[CHOOSE i \in miss : \A j \in miss : i <= j]

\* StateManager.get_npc_disposition with an active game state: the relationship
\* is fetched through GameState.get_relationship
get_npc_disposition(gs, npc_id) ==
    LET g1 == get_relationship(gs, npc_id)
    IN [gs |-> g1, disposition |-> g1.relationships[npc_id].disposition]

RECURSIVE CheckRelationships(_, _, _)
\* the requires_relationship loop of execute_significant_action from entry i on:
\* the game state it leaves and the NPC it failed on (None: all passed)
CheckRelationships(gs, required, i) ==
    IF i > Len(required)
    THEN [gs |-> gs, failed |-> NoneVal]
    ELSE LET d == get_npc_disposition(gs, required[i][1])
         IN IF d.disposition < required[i][2]
            THEN [gs |-> d.gs, failed |-> required[i][1]]
            ELSE CheckRelationships(d.gs, required, i + 1)

RECURSIVE SetFlags(_, _, _, _)
\* "for flag in flags: self.set_flag(flag, value)" from the i-th flag on
SetFlags(gs, flags, value, i) ==
    IF i > Len(flags) THEN gs
    ELSE SetFlags(StoryProgress_set_flag(gs, flags[i], value), flags, value, i + 1)

RECURSIVE UpdateRelationships(_, _, _, _)
\* the updates_relationships loop of execute_significant_action
UpdateRelationships(gs, updates, event, i) ==
    IF i > Len(updates) THEN gs
    ELSE UpdateRelationships(
            modify_relationship(gs, updates[i].npc_id, updates[i].disposition,
                                updates[i].trust, event),
            updates, event, i + 1)

\* "quest_id.objective_id" is written <<quest_id, objective_id>> (None: <<>>);
\* str.split(".", 1) gives its two parts
SplitDot(s) == << s[1], s[2] >>

\* the inventory after the effect phase of execute_significant_action, which
\* has no statement for grants_items or removes_items
InventoryAfter(inventory, action) == inventory

\* the effect phase of execute_significant_action (state_manager.py 549-594)
ApplyEffects(gs, ch, action) ==
    LET g1 == SetFlags(gs, action.sets_flags, TRUE, 1)
        g2 == SetFlags(g1, action.clears_flags, FALSE, 1)
        g3 == UpdateRelationships(g2, action.updates_relationships,
                                  action.action_id, 1)
        g4 == IF action.grants_quest # NoneVal
              THEN start_quest(g3, action.grants_quest) ELSE g3
        g5 == IF action.completes_objective # <<>>
              THEN complete_objective(g4, SplitDot(action.completes_objective)[1],
                                      SplitDot(action.completes_objective)[2])
              ELSE g4
        c1 == [ch EXCEPT
                 !.experience = IF action.grants_xp > 0
                                THEN @ + action.grants_xp ELSE @,
                 !.inventory = InventoryAfter(@, action)]
        effects == [flags_set |-> action.sets_flags,
                    flags_cleared |-> action.clears_flags,
                    relationships_modified |->
                        [i \in 1..Len(action.updates_relationships) |->
                            action.updates_relationships[i].npc_id],
                    quest_started |-> action.grants_quest,
                    objective_completed |-> action.completes_objective,
                    xp_granted |-> IF action.grants_xp > 0 THEN action.grants_xp ELSE 0]
        g6 == record_action(g5, <<action.action_id>>, <<effects>>)
    IN [gs |-> g6, ch |-> c1, ok |-> TRUE,
        msg |-> IF action.success_prompt # NoneVal
                THEN [kind |-> "prompt", what |-> action.success_prompt]
                ELSE [kind |-> "executed", what |-> action.action_id],
        effects |-> effects]

\* a failed call of execute_significant_action
Failure(gs, ch, kind, what) ==
    [gs |-> gs, ch |-> ch, ok |-> FALSE, msg |-> [kind |-> kind, what |-> what],
     effects |-> NoEffects]

\* StateManager.execute_significant_action on an action of the current node:
\* the game state and character it leaves and the tuple it returns
execute_significant_action(gs, ch, action) ==
    LET flag == FirstMissingFlag(gs, action.requires_flags)
        item == FirstMissingItem(ch.inventory, action.requires_items)
        rels == CheckRelationships(gs, action.requires_relationship, 1)
    IN IF flag # NoneVal THEN Failure(gs, ch, "missing_flag", flag)
       ELSE IF item # NoneVal THEN Failure(gs, ch, "missing_item", item)
       ELSE IF rels.failed # NoneVal
            THEN Failure(rels.gs, ch, "insufficient_relationship", rels.failed)
       ELSE ApplyEffects(rels.gs, ch, action)

(***************************************************************************)
(* The StateManager as a state machine.                                    *)
(***************************************************************************)
\* what a StateManager call returned: (success, message, effects), and for
\* move_to_node whether the "without valid exit" warning was logged
MkRet(op, arg, ok, msg, effects, anomalous) ==
    [op |-> op, arg |-> arg, ok |-> ok, msg |-> msg, effects |-> effects,
     anomalous |-> anomalous]

NoMsg == [kind |-> "", what |-> ""]

\* StateManager.__init__: no game state yet; the character is the caller's
InitWorld ==
    /\ initialized = FALSE
    /\ save_file = <<>>
    /\ game_state = NewGameState
    /\ character \in { [inventory |-> inv, experience |-> 0] : inv \in Inventories }
    /\ ret = MkRet("init", "", TRUE, NoMsg, NoEffects, FALSE)

\* StateManager.initialize_new_game, called once per session
InitializeNewGame ==
    /\ ~initialized
    /\ initialized' = TRUE
    /\ game_state' = NewGameState
    /\ ret' = MkRet("initialize_new_game", "", TRUE, NoMsg, NoEffects, FALSE)
    /\ UNCHANGED <<character, combat_vars, dm_vars, rules_vars, file_vars>>

\* StateManager.move_to_node(node_id)
MoveToNode(node_id) ==
    /\ IF ~initialized
       THEN /\ ret' = MkRet("move_to_node", node_id, FALSE,
                            [kind |-> "no_game_state", what |-> ""], NoEffects, FALSE)
            /\ UNCHANGED <<initialized, game_state>>
       ELSE IF NodeUnknown(node_id)
       THEN /\ ret' = MkRet("move_to_node", node_id, FALSE,
                            [kind |-> "does_not_exist", what |-> node_id],
                            NoEffects, FALSE)
            /\ UNCHANGED <<initialized, game_state>>
       ELSE /\ Len(game_state.action_history) < MaxHistory
            /\ game_state' = GameState_move_to_node(game_state, node_id)
            /\ ret' = MkRet("move_to_node", node_id, TRUE,
                            [kind |-> "moved_to", what |-> node_id], NoEffects,
                            get_current_node # NoneVal /\ ~ValidExit(node_id))
            /\ UNCHANGED initialized
    /\ UNCHANGED <<character, combat_vars, dm_vars, rules_vars, file_vars>>

\* StateManager.set_flag(flag, value)
SetFlag(flag, value) ==
    /\ IF ~initialized
       THEN /\ ret' = MkRet("set_flag", flag, FALSE,
                            [kind |-> "ValueError", what |-> "no_game_state"],
                            NoEffects, FALSE)
            /\ UNCHANGED game_state
       ELSE /\ game_state' = StoryProgress_set_flag(game_state, flag, value)
            /\ ret' = MkRet("set_flag", flag, TRUE,
                            [kind |-> "value", what |-> IF value THEN "True" ELSE "False"],
                            NoEffects, FALSE)
    /\ UNCHANGED <<initialized, character, combat_vars, dm_vars, rules_vars, file_vars>>

\* StateManager.execute_significant_action(action_id)
ExecuteSignificantAction(action_id) ==
    /\ IF CurrentAction(action_id) = {}
       THEN /\ ret' = MkRet("execute_significant_action", action_id, FALSE,
                            [kind |-> "not_available", what |-> action_id],
                            NoEffects, FALSE)
            /\ UNCHANGED <<game_state, character>>
       ELSE /\ Len(game_state.action_history) < MaxHistory
            /\ LET r == execute_significant_action(game_state, character,
                            CHOOSE a \in CurrentAction(action_id) : TRUE)
               IN /\ game_state' = r.gs
                  /\ character' = r.ch
                  /\ ret' = MkRet("execute_significant_action", action_id, r.ok,
                                  r.msg, r.effects, FALSE)
    /\ UNCHANGED <<initialized, combat_vars, dm_vars, rules_vars, file_vars>>

\* the dict save_state dumps, without the session id, the campaign id, the
\* time and the character's name, which no operation of the model changes
SaveData(gs) ==
    [current_node |-> gs.location.node_id,
     flags |-> gs.story_progress.flags,
     note |-> "Full serialization not yet implemented"]

\* StateManager.save_state(filepath)
SaveState ==
    /\ IF ~initialized
       THEN /\ ret' = MkRet("save_state", "", FALSE,
                            [kind |-> "ValueError", what |-> "no_game_state"],
                            NoEffects, FALSE)
            /\ UNCHANGED save_file
       ELSE /\ save_file' = <<SaveData(game_state)>>
            /\ ret' = MkRet("save_state", "", TRUE, NoMsg, NoEffects, FALSE)
    /\ UNCHANGED <<initialized, game_state, character, combat_vars, dm_vars, rules_vars>>

\* StateManager.load_state(filepath): raises without reading the file
LoadState ==
    /\ ret' = MkRet("load_state", "", FALSE,
                    [kind |-> "NotImplementedError", what |-> ""], NoEffects, FALSE)
    /\ UNCHANGED <<initialized, game_state, character, save_file, combat_vars, dm_vars,
                   rules_vars>>

\* a session that is saved and loaded
NextPersistence ==
    \/ InitializeNewGame
    \/ \E flag \in FlagNames, value \in BOOLEAN : SetFlag(flag, value)
    \/ SaveState
    \/ LoadState

NextWorld ==
    \/ InitializeNewGame
    \/ \E node_id \in NodeIds \cup {UnknownNode} : MoveToNode(node_id)
    \/ \E flag \in FlagNames, value \in BOOLEAN : SetFlag(flag, value)
    \/ \E action_id \in ActionIds \cup {UnknownAction} :
          ExecuteSignificantAction(action_id)

(***************************************************************************)
(* engine/dm_engine_v2.py: text.  A str is the sequence of its characters, *)
(* so that lower-casing, stripping, splitting, substring tests and the     *)
(* regular expressions of the engine are modelled as they work.            *)
(***************************************************************************)
UpperChars == <<"A", "B", "C", "D", "E", "F", "G", "H", "I", "J", "K", "L", "M",
                "N", "O", "P", "Q", "R", "S", "T", "U", "V", "W", "X", "Y", "Z">>

LowerChars == <<"a", "b", "c", "d", "e", "f", "g", "h", "i", "j", "k", "l", "m",
                "n", "o", "p", "q", "r", "s", "t", "u", "v", "w", "x", "y", "z">>

\* the characters str.strip() and str.split() treat as blank, and \s matches
Whitespace == {" ", "\t", "\n"}

\* str.lower()
Lower(s) ==
    AsList([i \in 1..Len(s) |->
        IF s[i] \in Range(UpperChars)
        THEN LowerChars[CHOOSE k \in 1..Len(UpperChars) : UpperChars[k] = s[i]]
        ELSE s[i]])

RECURSIVE StripOf(_, _)
\* str.strip(chars)
StripOf(s, chars) ==
    IF s = <<>> THEN s
    ELSE IF s[1] \in chars THEN StripOf(Tail(s), chars)
    ELSE IF s[Len(s)] \in chars THEN StripOf(SubSeq(s, 1, Len(s) - 1), chars)
    ELSE s

\* str.strip()
Strip(s) == StripOf(s, Whitespace)

RECURSIVE LStripOf(_, _)
\* re.sub(r'^[chars]+', '', s)
LStripOf(s, chars) ==
    IF s # <<>> /\ s[1] \in chars THEN LStripOf(Tail(s), chars) ELSE s

\* sub occupies s from position i on
OccursAt(sub, s, i) ==
    i + Len(sub) - 1 <= Len(s) /\ \A k \in 1..Len(sub) : s[i + k - 1] = sub[k]

\* "sub in s" of two str
Contains(sub, s) == \E i \in 1..(Len(s) + 1) : OccursAt(sub, s, i)

\* str.find(c) for one character, as a position from 1, 0 when absent
Find(s, c) ==
    IF InList(c, s) THEN CHOOSE i \in 1..Len(s) : s[i] = c /\ \A j \in 1..(i - 1) : s[j] # c
    ELSE 0

RECURSIVE Split(_)
\* str.split()
Split(s) ==
    LET t == LStripOf(s, Whitespace)
        blanks == { i \in 1..Len(t) : t[i] \in Whitespace }
        n == IF blanks = {} THEN Len(t) + 1
             ELSE CHOOSE i \in blanks : \A j \in blanks : i <= j
    IN IF t = <<>> THEN <<>>
       ELSE <<SubSeq(t, 1, n - 1)>> \o Split(SubSeq(t, n, Len(t)))

RECURSIVE Join(_)
\* ' '.join(words)
Join(words) ==
    IF words = <<>> THEN <<>>
    ELSE IF Len(words) = 1 THEN words[1]
    ELSE words[1] \o <<" ">> \o Join(Tail(words))

\* the characters \w of the regular expressions matches
WordChars ==
    Range(LowerChars) \cup Range(UpperChars)
    \cup {"_", "0", "1", "2", "3", "4", "5", "6", "7", "8", "9"}

IsWordChar(c) == c \in WordChars

\* \b before position i of s
Boundary(s, i) ==
    (i > 1 /\ IsWordChar(s[i - 1])) # (i <= Len(s) /\ IsWordChar(s[i]))

\* where a match of the pattern \bw1\b, or \bw1\s*w2\b, that starts at i ends
\* (the position after it), 0 when there is none
MatchEnd(pattern, s, i) ==
    LET j == i + Len(pattern[1])
        rest == { k \in j..Len(s) : s[k] \notin Whitespace }
        k == IF rest = {} THEN Len(s) + 1 ELSE CHOOSE x \in rest : \A y \in rest : x <= y
    IN IF ~(Boundary(s, i) /\ OccursAt(pattern[1], s, i)) THEN 0
       ELSE IF Len(pattern) = 1 THEN (IF Boundary(s, j) THEN j ELSE 0)
       ELSE IF OccursAt(pattern[2], s, k) /\ Boundary(s, k + Len(pattern[2]))
            THEN k + Len(pattern[2]) ELSE 0

\* re.search(pattern, s)
Search(pattern, s) == \E i \in 1..Len(s) : MatchEnd(pattern, s, i) > 0

RECURSIVE Remove(_, _, _)
\* re.sub(pattern, '', s) from position i on
Remove(pattern, s, i) ==
    IF i > Len(s) THEN <<>>
    ELSE IF MatchEnd(pattern, s, i) > 0 THEN Remove(pattern, s, MatchEnd(pattern, s, i))
    ELSE <<s[i]>> \o Remove(pattern, s, i + 1)

RECURSIVE RemoveTags(_, _)
\* re.sub(r'\[[^\]]+\]', '', s) from position i on
RemoveTags(s, i) ==
    LET close == Find(SubSeq(s, i + 1, Len(s)), "]")
    IN IF i > Len(s) THEN <<>>
       ELSE IF s[i] = "[" /\ close > 1 THEN RemoveTags(s, i + close + 1)
       ELSE <<s[i]>> \o RemoveTags(s, i + 1)

(***************************************************************************)
(* The campaign data the DM engine reads beside the node table: the NPC    *)
(* table, who is present where, and the texts of exits and actions.        *)
(***************************************************************************)
\* NodePresence.npc_id of Node.npcs_present, in list order; "stranger" has no
\* entry in the NPC table
NpcsPresent(node) ==
    CASE node = "tavern" -> <<"ameiko", "marcus">>
      [] node = "cellar" -> <<"stranger", "marcus">>
      [] node = "vault" -> <<"guard", "guard_captain">>
      [] OTHER -> <<>>

\* the characters of an id (node ids, NPC ids)
IdText(id) ==
    CASE id = "ameiko" -> <<"a", "m", "e", "i", "k", "o">>
      [] id = "marcus" -> <<"m", "a", "r", "c", "u", "s">>
      [] id = "stranger" -> <<"s", "t", "r", "a", "n", "g", "e", "r">>
      [] id = "guard" -> <<"g", "u", "a", "r", "d">>
      [] id = "guard_captain" ->
            <<"g", "u", "a", "r", "d", "_", "c", "a", "p", "t", "a", "i", "n">>
      [] id = "tavern" -> <<"t", "a", "v", "e", "r", "n">>
      [] id = "cellar" -> <<"c", "e", "l", "l", "a", "r">>
      [] id = "vault" -> <<"v", "a", "u", "l", "t">>

\* NPC.name
NpcName(npc_id) ==
    CASE npc_id = "ameiko" -> <<"A", "m", "e", "i", "k", "o">>
      [] npc_id = "marcus" -> <<"M", "a", "r", "c", "u", "s">>
      [] npc_id = "guard" -> <<"G", "u", "a", "r", "d">>
      [] npc_id = "guard_captain" ->
            <<"G", "u", "a", "r", "d", " ", "C", "a", "p", "t", "a", "i", "n">>

\* NodeExit.direction, None where the exit has none
ExitDirection(exit_id) ==
    CASE exit_id = "to_cellar" -> <<"d", "o", "w", "n">>
      [] exit_id = "up" -> <<"u", "p">>
      [] OTHER -> NoneVal

\* NodeExit.description
ExitDescription(exit_id) ==
    CASE exit_id = "to_cellar" -> <<"t", "h", "e", " ", "c", "e", "l", "l", "a", "r", " ", "s", "t", "a", "i", "r", "s">>
      [] exit_id = "to_vault" -> <<"a", " ", "h", "e", "a", "v", "y", " ", "d", "o", "o", "r">>
      [] exit_id = "up" -> <<"t", "h", "e", " ", "s", "t", "a", "i", "r", "s">>
      [] exit_id = "tunnel" -> <<"a", " ", "t", "u", "n", "n", "e", "l">>
      [] exit_id = "out" -> <<"t", "h", "e", " ", "w", "a", "y", " ", "o", "u", "t">>
      [] exit_id = "hatch" -> <<"a", " ", "h", "a", "t", "c", "h">>

\* SignificantAction.trigger_description
TriggerDescription(action_id) ==
    CASE action_id = "befriend" -> <<"S", "h", "a", "r", "e", " ", "a", " ", "d", "r", "i", "n", "k", " ", "w", "i", "t", "h", " ", "A", "m", "e", "i", "k", "o">>
      [] action_id = "take_key" -> <<"T", "a", "k", "e", " ", "t", "h", "e", " ", "b", "r", "a", "s", "s", " ", "k", "e", "y">>
      [] action_id = "ask_favor" -> <<"A", "s", "k", " ", "M", "a", "r", "c", "u", "s", " ", "f", "o", "r", " ", "a", " ", "f", "a", "v", "o", "r">>
      [] action_id = "pry" -> <<"P", "r", "y", " ", "o", "p", "e", "n", " ", "t", "h", "e", " ", "c", "r", "a", "t", "e">>

(***************************************************************************)
(* engine/dm_engine_v2.py: input parsing                                   *)
(***************************************************************************)
\* NewDMEngine.DM_ADDRESS_PATTERNS: \bjoe\b, \bdm\b, \bdungeon\s*master\b
DM_ADDRESS_PATTERNS ==
    << <<<<"j", "o", "e">>>>, <<<<"d", "m">>>>,
       <<<<"d", "u", "n", "g", "e", "o", "n">>, <<"m", "a", "s", "t", "e", "r">>>> >>

\* NewDMEngine.FILLER_WORDS
FILLER_WORDS ==
    << <<"o", "k">>,
       <<"o", "k", "a", "y">>,
       <<"a", "l", "r", "i", "g", "h", "t">>,
       <<"h", "e", "y">>,
       <<"s", "o">>,
       <<"w", "e", "l", "l">>,
       <<"u", "m">>,
       <<"u", "h">> >>

movement_keywords ==
    << <<"g", "o", " ", "t", "o">>,
       <<"h", "e", "a", "d", " ", "t", "o">>,
       <<"w", "a", "l", "k", " ", "t", "o">>,
       <<"t", "r", "a", "v", "e", "l", " ", "t", "o">>,
       <<"l", "e", "a", "v", "e">>,
       <<"e", "x", "i", "t">>,
       <<"e", "n", "t", "e", "r">>,
       <<"m", "o", "v", "e", " ", "t", "o">>,
       <<"g", "o", " ", "b", "a", "c", "k">>,
       <<"r", "e", "t", "u", "r", "n", " ", "t", "o">> >>

combat_keywords ==
    << <<"a", "t", "t", "a", "c", "k">>,
       <<"f", "i", "g", "h", "t">>,
       <<"s", "t", "r", "i", "k", "e">>,
       <<"h", "i", "t">>,
       <<"c", "a", "s", "t">>,
       <<"s", "h", "o", "o", "t">> >>

system_keywords ==
    << <<"s", "a", "v", "e">>,
       <<"l", "o", "a", "d">>,
       <<"i", "n", "v", "e", "n", "t", "o", "r", "y">>,
       <<"c", "h", "a", "r", "a", "c", "t", "e", "r">>,
       <<"s", "t", "a", "t", "s">>,
       <<"h", "e", "l", "p">> >>

\* any(kw in text for kw in keywords)
AnyKeyword(keywords, text) ==
    \E i \in 1..Len(keywords) : Contains(keywords[i], text)

\* the is_dm_addressed of parse_player_input
IsDmAddressed(raw_input) ==
    \E i \in 1..Len(DM_ADDRESS_PATTERNS) :
        Search(DM_ADDRESS_PATTERNS[i], Strip(Lower(raw_input)))

RECURSIVE RemovePatterns(_, _)
\* the "for pattern in DM_ADDRESS_PATTERNS" loop of _clean_input from pattern i on
RemovePatterns(s, i) ==
    IF i > Len(DM_ADDRESS_PATTERNS) THEN s
    ELSE RemovePatterns(Remove(DM_ADDRESS_PATTERNS[i], s, 1), i + 1)

RECURSIVE PopFillers(_)
\* the "while words and words[0].strip('.,!?') in FILLER_WORDS" loop
PopFillers(words) ==
    IF words # <<>> /\ InList(StripOf(words[1], {".", ",", "!", "?"}), FILLER_WORDS)
    THEN PopFillers(Tail(words))
    ELSE words

\* NewDMEngine._clean_input
clean_input(raw_input) ==
    LET words == PopFillers(Split(RemovePatterns(Lower(raw_input), 1)))
    IN Strip(LStripOf(Strip(Join(words)), {",", "."} \cup Whitespace))

\* NewDMEngine._classify_intent, given the conversation's current speaker
classify_intent(cleaned_input, is_dm_addressed, current_speaker) ==
    LET input_lower == Lower(cleaned_input)
    IN IF AnyKeyword(movement_keywords, input_lower) THEN "movement"
       ELSE IF is_dm_addressed THEN "action"
       ELSE IF AnyKeyword(combat_keywords, input_lower) THEN "combat"
       ELSE IF AnyKeyword(system_keywords, input_lower) THEN "system"
       ELSE IF current_speaker # NoneVal THEN "dialogue"
       ELSE "action"

\* the three tests _find_target makes of one exit
ExitMentioned(exit_data, input_lower) ==
    \/ Contains(Lower(IdText(exit_data.target_node)), input_lower)
    \/ /\ ExitDirection(exit_data.exit_id) # NoneVal
       /\ ExitDirection(exit_data.exit_id) # <<>>
       /\ Contains(Lower(ExitDirection(exit_data.exit_id)), input_lower)
    \/ LET desc_words == Split(Lower(ExitDescription(exit_data.exit_id)))
       IN \E i \in 1..Len(desc_words) :
             Len(desc_words[i]) > 3 /\ Contains(desc_words[i], input_lower)

\* the first element of a list that passes a test, or None
FirstOr(list, Test(_), Value(_)) ==
    LET hits == { i \in 1..Len(list) : Test(list[i]) }
    IN IF hits = {} THEN NoneVal
       ELSE Value(list[CHOOSE i \in hits : \A j \in hits : i <= j])

\* NewDMEngine._find_target
find_target(cleaned_input, intent_type, gs, ch) ==
    LET input_lower == Lower(cleaned_input)
        named(npc_id) == npc_id \in NpcIds /\ Contains(Lower(NpcName(npc_id)), input_lower)
        mentioned(exit_data) == ExitMentioned(exit_data, input_lower)
        node_of(exit_data) == exit_data.target_node
        same(x) == x
        npc == FirstOr(NpcsPresent(gs.location.node_id), named, same)
    IN IF intent_type = "movement"
       THEN FirstOr(AvailableExitsOf(gs, ch), mentioned, node_of)
       ELSE IF intent_type = "dialogue"
       THEN (IF npc # NoneVal THEN npc ELSE gs.conversation.current_speaker)
       ELSE NoneVal

\* NewDMEngine.parse_player_input: the PlayerIntent
parse_player_input(raw_input, gs, ch) ==
    LET is_dm_addressed == IsDmAddressed(raw_input)
        cleaned == clean_input(raw_input)
        intent_type == classify_intent(cleaned, is_dm_addressed,
                                       gs.conversation.current_speaker)
    IN [type |-> intent_type,
        target |-> find_target(cleaned, intent_type, gs, ch),
        cleaned_input |-> cleaned,
        is_dm_addressed |-> is_dm_addressed]

(***************************************************************************)
(* engine/dm_engine_v2.py: response parsing and validation                 *)
(***************************************************************************)
\* NewDMEngine._extract_speaker_tag: the tag and the narration
extract_speaker_tag(raw_response) ==
    LET stripped == Strip(raw_response)
        tag_end == Find(stripped, "]")
    IN IF stripped # <<>> /\ stripped[1] = "[" /\ tag_end > 1
       THEN [tag |-> Strip(SubSeq(stripped, 2, tag_end - 1)),
             narration |->
                Strip(RemoveTags(Strip(SubSeq(stripped, tag_end + 1, Len(stripped))), 1))]
       ELSE [tag |-> <<"D", "M">>, narration |-> stripped]

\* the tests _validate_speaker makes of one NPC present at the node
SpeakerMatches(tag_lower, npc_id) ==
    /\ npc_id \in NpcIds
    /\ \/ tag_lower = Lower(IdText(npc_id))
       \/ tag_lower = Lower(NpcName(npc_id))
       \/ Contains(Lower(IdText(npc_id)), tag_lower)
       \/ Contains(tag_lower, Lower(NpcName(npc_id)))

\* NewDMEngine._validate_speaker
validate_speaker(speaker_tag, node, gs) ==
    LET tag_lower == Lower(speaker_tag)
        matches(npc_id) == SpeakerMatches(tag_lower, npc_id)
        same(x) == x
        npc == FirstOr(NpcsPresent(node), matches, same)
        current == gs.conversation.current_speaker
    IN IF tag_lower = <<"d", "m">> THEN "dm"
       ELSE IF npc # NoneVal THEN npc
       ELSE IF current # NoneVal /\ InList(current, NpcsPresent(node)) THEN current
       ELSE "dm"

\* the words of a text as a set: set(text.lower().split())
WordSet(text) == Range(Split(Lower(text)))

\* NewDMEngine._action_triggered
action_triggered(action, cleaned_input, gs) ==
    /\ \A i \in 1..Len(action.requires_flags) : has_flag(gs, action.requires_flags[i])
    /\ LET overlap == WordSet(TriggerDescription(action.action_id))
                          \cap WordSet(cleaned_input)
       IN Cardinality({ w \in overlap : Len(w) > 3 }) >= 2

RECURSIVE Collect(_, _, _)
\* list.extend over the triggered actions, from the i-th on
Collect(actions, Field(_), i) ==
    IF i > Len(actions) THEN <<>>
    ELSE Field(actions[i]) \o Collect(actions, Field, i + 1)

RECURSIVE SumXp(_, _)
\* changes['xp_gained'] += action.grants_xp over the triggered actions
SumXp(actions, i) ==
    IF i > Len(actions) THEN 0 ELSE actions[i].grants_xp + SumXp(actions, i + 1)

\* NewDMEngine._detect_state_changes.  An action's updates_relationships holds
\* RelationshipUpdate objects; the loop calls update.get(...) on them, which
\* raises AttributeError, so the first triggered action with an update ends
\* the call
detect_state_changes(intent, node, gs) ==
    LET triggered == SelectSeq(NodeActions(node),
                               LAMBDA a : action_triggered(a, intent.cleaned_input, gs))
        sets(a) == a.sets_flags
        clears(a) == a.clears_flags
        grants(a) == a.grants_items
        removes(a) == a.removes_items
    IN [raised |-> \E i \in 1..Len(triggered) : triggered[i].updates_relationships # <<>>,
        triggered |-> [i \in 1..Len(triggered) |-> triggered[i].action_id],
        set_flags |-> Collect(triggered, sets, 1),
        clear_flags |-> Collect(triggered, clears, 1),
        xp_gained |-> SumXp(triggered, 1),
        items_gained |-> Collect(triggered, grants, 1),
        items_lost |-> Collect(triggered, removes, 1),
        move_to_node |-> IF intent.type = "movement" /\ intent.target # NoneVal
                         THEN intent.target ELSE NoneVal]

(***************************************************************************)
(* engine/state_manager.py, engine/schemas/game_state.py: conversation     *)
(***************************************************************************)
\* the length ConversationState.add_exchange keeps
MaxExchanges == 10

\* ConversationState.add_exchange, called by StateManager.add_dialogue
add_exchange(gs, speaker, text) ==
    LET all == Append(gs.conversation.recent_exchanges,
                      [speaker |-> speaker, text |-> text])
    IN [gs EXCEPT !.conversation.recent_exchanges =
           IF Len(all) > MaxExchanges
           THEN SubSeq(all, Len(all) - MaxExchanges + 1, Len(all))
           ELSE all]

\* StateManager.set_current_speaker
set_current_speaker(gs, npc_id) ==
    [gs EXCEPT !.conversation.current_speaker = npc_id,
               !.conversation.mode =
                   IF npc_id # NoneVal THEN "dialogue" ELSE "exploration"]

RECURSIVE ContextRelationships(_, _, _)
\* the "for npc_presence in current_node.npcs_present" loop of
\* StateManager.get_context_for_ai from entry i on: get_npc_disposition and
\* get_npc_attitude fetch the relationship through GameState.get_relationship
ContextRelationships(gs, present, i) ==
    IF i > Len(present) THEN gs
    ELSE ContextRelationships(
             IF present[i] \in NpcIds THEN get_relationship(gs, present[i]) ELSE gs,
             present, i + 1)

\* the game state NewDMEngine.build_prompt leaves: it reads the context of
\* StateManager.get_context_for_ai; the prompt text itself goes to the
\* generator, whose answer is any of the outputs below
build_prompt(gs) ==
    ContextRelationships(gs, NpcsPresent(gs.location.node_id), 1)

(***************************************************************************)
(* engine/dm_engine_v2.py: process_input                                   *)
(***************************************************************************)
\* the DMResponse, or the exception, of a process_input call
MkResponse(outcome, error, intent, generator, speaker, narration, changes) ==
    [outcome |-> outcome, error |-> error, intent |-> intent,
     generator |-> generator,
     speaker |-> speaker, narration |-> narration, changes |-> changes]

\* a DMResponse without state changes
NoChanges ==
    [raised |-> FALSE, triggered |-> <<>>, set_flags |-> <<>>, clear_flags |-> <<>>,
     xp_gained |-> 0, items_gained |-> <<>>, items_lost |-> <<>>,
     move_to_node |-> NoneVal]

\* a system command that is also written to the conversation log
handle_system_command_logged(intent, gs, ch) ==
    [gs |-> add_exchange(gs, "player", intent.cleaned_input),
     narration |-> <<"unknown_command">>]

\* NewDMEngine._handle_system_command: the game state it leaves and the
\* narration (the inventory listing, or "I didn't understand that command.")
handle_system_command(intent, gs, ch) ==
    [gs |-> gs,
     narration |-> IF Contains(<<"i", "n", "v", "e", "n", "t", "o", "r", "y">>, Lower(intent.cleaned_input))
                   THEN <<"carrying">> \o ch.inventory
                   ELSE <<"unknown_command">>]

\* the speaker bookkeeping of _apply_state_changes
UpdateSpeaker(gs, speaker, intent) ==
    IF speaker # "dm" THEN set_current_speaker(gs, speaker)
    ELSE IF intent.is_dm_addressed THEN set_current_speaker(gs, NoneVal)
    ELSE gs

\* NewDMEngine._apply_state_changes: the game state and the character it
\* leaves.  relationship_changes is empty whenever this is reached
apply_state_changes(gs, ch, speaker, narration, changes, intent) ==
    LET g1 == UpdateSpeaker(gs, speaker, intent)
        g2 == SetFlags(g1, changes.set_flags, TRUE, 1)
        g3 == SetFlags(g2, changes.clear_flags, FALSE, 1)
        g4 == IF changes.move_to_node # NoneVal /\ ~NodeUnknown(changes.move_to_node)
              THEN GameState_move_to_node(g3, changes.move_to_node)
              ELSE g3
        g5 == add_exchange(g4, "player", intent.cleaned_input)
        g6 == add_exchange(g5, speaker, narration)
    IN [gs |-> record_action(g6,
                   <<intent.type,
                     IF intent.target # NoneVal THEN intent.target ELSE "general">>,
                   <<[input |-> intent.cleaned_input, speaker |-> speaker,
                      flags_set |-> changes.set_flags]>>),
        ch |-> IF changes.xp_gained > 0
               THEN [ch EXCEPT !.experience = @ + changes.xp_gained]
               ELSE ch]

\* what the player types
PlayerInputs ==
    { <<"l", "o", "o", "k", " ", "a", "r", "o", "u", "n", "d">>,
      <<"D", "M", ",", " ", "l", "o", "o", "k", " ", "a", "r", "o", "u", "n", "d">>,
      <<"i", "n", "v", "e", "n", "t", "o", "r", "y">>,
      <<"h", "e", "l", "p">>,
      <<"s", "h", "a", "r", "e", " ", "a", " ", "d", "r", "i", "n", "k", " ", "w", "i", "t", "h", " ", "A", "m", "e", "i", "k", "o">>,
      <<"g", "o", " ", "t", "o", " ", "c", "e", "l", "l", "a", "r">>,
      <<"p", "r", "y", " ", "o", "p", "e", "n", " ", "t", "h", "e", " ", "c", "r", "a", "t", "e">> }

\* what the text generator answers: a [DM] tag, an NPC's name, no tag, an
\* empty tag, an unknown name, several tags, an unterminated bracket
GeneratorOutputs ==
    { <<"[", "D", "M", "]", " ", "o", "k">>,
      <<"[", "A", "m", "e", "i", "k", "o", "]", " ", "h", "i">>,
      <<"h", "i">>,
      <<"[", "]", " ", "h", "i">>,
      <<"[", "B", "o", "b", "]", " ", "h", "i">>,
      <<"[", "D", "M", "]", " ", "o", "k", " ", "[", "M", "a", "r", "c", "u", "s", "]", " ", "h", "i">>,
      <<"[", "M", "a", "r", "c", "u", "s", " ", "h", "i">> }

\* the generator returns a text or raises
Generated == { [raised |-> FALSE, text |-> t] : t \in GeneratorOutputs }
             \cup { [raised |-> TRUE, text |-> <<>>] }

\* the PlayerIntent fields known when parse_player_input raised
NoIntent(raw_input) ==
    [type |-> "unclassified", target |-> NoneVal,
     cleaned_input |-> clean_input(raw_input),
     is_dm_addressed |-> IsDmAddressed(raw_input)]

\* process_input on a StateManager without a game state: _classify_intent
\* reads game_state.conversation unless a keyword decided earlier,
\* get_context_for_ai raises ValueError, and the inventory command reads
\* game_state.character
ProcessInputNoGame(player_input) ==
    LET early == classify_intent(clean_input(player_input),
                                 IsDmAddressed(player_input), "unread")
        intent == [NoIntent(player_input) EXCEPT
                      !.type = IF early = "dialogue" THEN "unclassified" ELSE early]
        system == handle_system_command(intent, game_state, character)
    IN /\ response' =
            IF early = "dialogue"
            THEN MkResponse("raised", "AttributeError", intent, "not_called",
                            NoneVal, <<>>, NoChanges)
            ELSE IF early # "system"
            THEN MkResponse("raised", "ValueError", intent, "not_called",
                            NoneVal, <<>>, NoChanges)
            ELSE IF system.narration[1] = "carrying"
            THEN MkResponse("raised", "AttributeError", intent, "not_called",
                            NoneVal, <<>>, NoChanges)
            ELSE MkResponse("returned", "", intent, "not_called",
                            "dm", system.narration, NoChanges)
       /\ UNCHANGED <<game_state, character>>

\* the turns a session may still take: MaxTurns applied responses
MoreTurns == Len(game_state.conversation.recent_exchanges) < 2 * MaxTurns

\* NewDMEngine.process_input(player_input), the generator answering with one
\* of outcomes
ProcessInput(player_input, outcomes) ==
    /\ MoreTurns
    /\ IF ~initialized
       THEN ProcessInputNoGame(player_input)
       ELSE
         \E intent \in {parse_player_input(player_input, game_state, character)} :
         IF intent.type = "system"
         THEN /\ game_state' = handle_system_command(intent, game_state, character).gs
              /\ response' =
                    MkResponse("returned", "", intent, "not_called", "dm",
                        handle_system_command(intent, game_state, character).narration,
                        NoChanges)
              /\ UNCHANGED character
         ELSE
           \E prompted \in {build_prompt(game_state)} :
           \E changes \in {detect_state_changes(intent, game_state.location.node_id,
                                                 prompted)} :
           \E generated \in outcomes :
           IF generated.raised
           THEN /\ game_state' = prompted
                /\ response' = MkResponse("raised", "generator", intent, "raised",
                                          NoneVal, <<>>, NoChanges)
                /\ UNCHANGED character
           ELSE IF changes.raised
           THEN /\ game_state' = prompted
                /\ response' = MkResponse("raised", "AttributeError", intent,
                                          "returned", NoneVal, <<>>, NoChanges)
                /\ UNCHANGED character
           ELSE
             \E parsed \in {extract_speaker_tag(generated.text)} :
             \E speaker \in {validate_speaker(parsed.tag,
                                               game_state.location.node_id, prompted)} :
             \E applied \in {apply_state_changes(prompted, character, speaker,
                                                 parsed.narration, changes, intent)} :
                /\ game_state' = applied.gs
                /\ character' = applied.ch
                /\ response' = MkResponse("returned", "", intent, "returned",
                                          speaker, parsed.narration, changes)
    /\ ret' = MkRet("process_input", "", TRUE, NoMsg, NoEffects, FALSE)
    /\ UNCHANGED <<initialized, combat_vars, rules_vars, file_vars>>

\* the speaker tags generated texts carry
SpeakerTags ==
    { <<"D", "M">>,
      <<"A", "m", "e", "i", "k", "o">>,
      <<"m", "a", "r", "c", "u", "s">>,
      <<"N", "P", "C", "_", "A", "m", "e", "i", "k", "o">>,
      <<"B", "o", "b">>,
      <<"g", "u", "a", "r", "d">>,
      <<"G", "u", "a", "r", "d">>,
      <<"g", "u", "a", "r", "d", "_", "c", "a", "p", "t", "a", "i", "n">>,
      <<"G", "u", "a", "r", "d", " ", "C", "a", "p", "t", "a", "i", "n">>,
      <<"C", "a", "p", "t", "a", "i", "n">> }

\* StateManager.set_current_speaker(npc_id)
SetCurrentSpeaker(npc_id) ==
    /\ initialized
    /\ game_state' = set_current_speaker(game_state, npc_id)
    /\ ret' = MkRet("set_current_speaker", npc_id, TRUE, NoMsg, NoEffects, FALSE)
    /\ UNCHANGED <<initialized, character, response, combat_vars, rules_vars, file_vars>>

\* NewDMEngine._validate_speaker(speaker_tag, node, intent) at the current node
ValidateSpeaker(speaker_tag) ==
    /\ initialized
    /\ response' = MkResponse("returned", "", NoIntent(<<>>), "not_called",
                              validate_speaker(speaker_tag, game_state.location.node_id,
                                               game_state),
                              <<>>, NoChanges)
    /\ ret' = MkRet("validate_speaker", speaker_tag, TRUE, NoMsg, NoEffects, FALSE)
    /\ UNCHANGED <<initialized, game_state, character, combat_vars, rules_vars, file_vars>>

\* before any process_input
InitResponse ==
    response = MkResponse("none", "", NoIntent(<<>>), "not_called", NoneVal, <<>>,
                          NoChanges)

\* a session in which the speakers of generated texts are validated
NextSpeaker ==
    \/ InitializeNewGame
    \/ \E node_id \in NodeIds \cup {UnknownNode} : MoveToNode(node_id)
    \/ \E npc_id \in NpcIds \cup {NoneVal} : SetCurrentSpeaker(npc_id)
    \/ \E speaker_tag \in SpeakerTags : ValidateSpeaker(speaker_tag)

\* a session driven through the DM engine
NextDM ==
    \/ InitializeNewGame
    \/ \E player_input \in PlayerInputs : ProcessInput(player_input, Generated)

(***************************************************************************)
(* engine/state_manager.py: conditions.  A condition is a str, the         *)
(* sequence of its characters, parsed as the code parses it.               *)
(***************************************************************************)
RECURSIVE SplitOn(_, _)
\* str.split(sep)
SplitOn(sep, s) ==
    LET hits == { i \in 1..Len(s) : OccursAt(sep, s, i) }
        n == CHOOSE i \in hits : \A j \in hits : i <= j
    IN IF hits = {} THEN <<s>>
       ELSE <<SubSeq(s, 1, n - 1)>> \o SplitOn(sep, SubSeq(s, n + Len(sep), Len(s)))

RECURSIVE Concat(_)
\* the str of a sequence of characters, as a dict key
Concat(s) == IF s = <<>> THEN "" ELSE s[1] \o Concat(Tail(s))

\* the operator check_condition splits a condition on, were "&&" looked for first
SplitOperator_and_first(condition) ==
    IF Contains(<<"&", "&">>, condition) THEN <<"&", "&">>
    ELSE IF Contains(<<"|", "|">>, condition) THEN <<"|", "|">>
    ELSE <<>>

\* the operator check_condition splits a condition on: "||" when the
\* condition has one, else "&&" when it has one
SplitOperator(condition) ==
    IF Contains(<<"|", "|">>, condition) THEN <<"|", "|">>
    ELSE IF Contains(<<"&", "&">>, condition) THEN <<"&", "&">>
    ELSE <<>>

RECURSIVE check_condition(_, _)
\* StateManager.check_condition, with a game state
check_condition(gs, condition) ==
    LET stripped_condition == Strip(condition)
        operator == SplitOperator(stripped_condition)
        parts == SplitOn(operator, stripped_condition)
    IN IF operator = <<"|", "|">>
       THEN \E i \in 1..Len(parts) : check_condition(gs, Strip(parts[i]))
       ELSE IF operator = <<"&", "&">>
       THEN \A i \in 1..Len(parts) : check_condition(gs, Strip(parts[i]))
       ELSE IF stripped_condition # <<>> /\ stripped_condition[1] = "!"
       THEN ~has_flag(gs, Concat(Strip(Tail(stripped_condition))))
       ELSE has_flag(gs, Concat(stripped_condition))

\* the flags the conditions of the model mention, in the order they appear
ConditionFlags == <<"a", "b", "c", "d">>

\* how many terms each alternative of a condition has
ConditionShapes == {<<1>>, <<2>>, <<1, 1>>, <<2, 1>>, <<1, 2>>, <<2, 2>>, <<1, 1, 1>>}

RECURSIVE Total(_)
Total(shape) == IF shape = <<>> THEN 0 ELSE shape[1] + Total(Tail(shape))

\* a condition as its alternatives, each a list of terms: the k-th term of
\* the condition is about the k-th flag and negated as the vector says
BuildCondition(shape, negated) ==
    [i \in 1..Len(shape) |->
        [j \in 1..shape[i] |->
            LET k == Total(SubSeq(shape, 1, i - 1)) + j
            IN [negated |-> negated[k], flag |-> ConditionFlags[k]]]]

Conditions ==
    UNION { { BuildCondition(shape, negated) :
                negated \in [1..Total(shape) -> BOOLEAN] } : shape \in ConditionShapes }

RECURSIVE JoinWith(_, _)
\* sep.join(parts)
JoinWith(sep, parts) ==
    IF parts = <<>> THEN <<>>
    ELSE IF Len(parts) = 1 THEN parts[1]
    ELSE parts[1] \o sep \o JoinWith(sep, Tail(parts))

\* the condition string of a campaign file: "a && !b || c", or "a&&!b||c"
\* when written without blanks
ConditionText(alternatives, spaced) ==
    LET blank == IF spaced THEN <<" ">> ELSE <<>>
        TermText(term) == (IF term.negated THEN <<"!">> ELSE <<>>) \o <<term.flag>>
        AlternativeText(terms) ==
            JoinWith(blank \o <<"&", "&">> \o blank,
                     [j \in 1..Len(terms) |-> TermText(terms[j])])
    IN JoinWith(blank \o <<"|", "|">> \o blank,
                [i \in 1..Len(alternatives) |-> AlternativeText(alternatives[i])])

\* StateManager.check_condition(condition)
CheckCondition(alternatives, spaced) ==
    /\ ret' = MkRet("check_condition", alternatives,
                    initialized /\ check_condition(game_state,
                                                   ConditionText(alternatives, spaced)),
                    NoMsg, NoEffects, FALSE)
    /\ UNCHANGED <<initialized, game_state, character, combat_vars, dm_vars, rules_vars, file_vars>>

\* a session whose flags are set and whose conditions are evaluated
NextConditions ==
    \/ InitializeNewGame
    \/ \E k \in 1..Len(ConditionFlags), value \in BOOLEAN :
          SetFlag(ConditionFlags[k], value)
    \/ \E alternatives \in Conditions, spaced \in BOOLEAN :
          CheckCondition(alternatives, spaced)

(***************************************************************************)
(* engine/state_manager.py: relationships.                                 *)
(***************************************************************************)
\* the deltas callers pass: none, small ones, and ones far beyond the scale
DispositionDeltas == {-1000, -30, 0, 30, 1000}

TrustDeltas == {-1000, 0, 60}

\* the event descriptions callers pass; "" is the default
EventNames == {"", "helped_rescue"}

RECURSIVE EventsRecorded(_, _)
\* the events in the histories of the relationships with the NPCs of a set
EventsRecorded(relationships, npcs) ==
    IF npcs = {} THEN 0
    ELSE LET npc_id == CHOOSE x \in npcs : TRUE
         IN Len(relationships[npc_id].history)
            + EventsRecorded(relationships, npcs \ {npc_id})

\* StateManager.modify_relationship(npc_id, disposition, trust, event)
ModifyRelationship(npc_id, disposition, trust, event) ==
    /\ IF ~initialized
       THEN /\ ret' = MkRet("modify_relationship",
                            [npc_id |-> npc_id, disposition |-> disposition,
                             trust |-> trust],
                            FALSE, [kind |-> "ValueError", what |-> "no_game_state"],
                            NoEffects, FALSE)
            /\ UNCHANGED game_state
       ELSE /\ disposition # 0 =>
                 EventsRecorded(game_state.relationships,
                                DOMAIN game_state.relationships) < MaxEvents
            /\ game_state' = modify_relationship(game_state, npc_id, disposition,
                                                 trust, event)
            /\ ret' = MkRet("modify_relationship",
                            [npc_id |-> npc_id, disposition |-> disposition,
                             trust |-> trust],
                            TRUE, NoMsg, NoEffects, FALSE)
    /\ UNCHANGED <<initialized, character, combat_vars, dm_vars, rules_vars, file_vars>>

\* a session whose relationships are modified
NextRelationships ==
    \/ InitializeNewGame
    \/ \E npc_id \in {"ameiko", "marcus"}, disposition \in DispositionDeltas,
          trust \in TrustDeltas, event \in EventNames :
          ModifyRelationship(npc_id, disposition, trust, event)

(***************************************************************************)
(* engine/rules_engine.py: dice.  A dice expression is the sequence of its *)
(* characters, so that parsing and formatting are modelled as they work.   *)
(***************************************************************************)
DigitChars == <<"0", "1", "2", "3", "4", "5", "6", "7", "8", "9">>

IsDigit(c) == InList(c, DigitChars)

\* int(c) for a digit character
DigitValue(c) == (CHOOSE i \in 1..Len(DigitChars) : DigitChars[i] = c) - 1

RECURSIVE DigitsFrom(_, _)
\* how many digit characters stand at position p and after it (a greedy \d*)
DigitsFrom(e, p) ==
    IF p <= Len(e) /\ IsDigit(e[p]) THEN 1 + DigitsFrom(e, p + 1) ELSE 0

RECURSIVE ToInt(_, _, _)
\* int() of the n digits that end at position p
ToInt(e, p, n) ==
    IF n = 0 THEN 0 ELSE 10 * ToInt(e, p - 1, n - 1) + DigitValue(e[p])

RECURSIVE IntToChars(_)
\* str(n), as the f-string of attack() formats a damage modifier
IntToChars(n) ==
    IF n < 0 THEN <<"-">> \o IntToChars(0 - n)
    ELSE IF n < 10 THEN <<DigitChars[n + 1]>>
    ELSE IntToChars(n \div 10) \o <<DigitChars[(n % 10) + 1]>>

\* str.isdigit()
IsDigitString(e) == Len(e) > 0 /\ \A i \in 1..Len(e) : IsDigit(e[i])

\* expression.lower().replace(' ', '')
Normalize(expression) ==
    LET low == [i \in 1..Len(expression) |->
                   IF expression[i] = "D" THEN "d" ELSE expression[i]]
    IN SelectSeq(low, LAMBDA c : c # " ")

\* DICE_PATTERN.match: (\d*)d(\d+)([+-]\d+)? at the start of the expression,
\* and the three numbers DiceRoller.roll reads from the groups
ParseDice(expression) ==
    LET e == Normalize(expression)
        n1 == DigitsFrom(e, 1)
        dpos == n1 + 1
        n2 == DigitsFrom(e, dpos + 1)
        spos == dpos + n2 + 1
        n3 == IF spos <= Len(e) /\ e[spos] \in {"+", "-"}
              THEN DigitsFrom(e, spos + 1) ELSE 0
    IN IF dpos > Len(e) \/ e[dpos] # "d" \/ n2 = 0
       THEN [matched |-> FALSE, num_dice |-> 0, die_size |-> 0, modifier |-> 0]
       ELSE [matched |-> TRUE,
             num_dice |-> IF n1 = 0 THEN 1 ELSE ToInt(e, n1, n1),
             die_size |-> ToInt(e, dpos + n2, n2),
             modifier |-> IF n3 = 0 THEN 0
                          ELSE IF e[spos] = "-" THEN 0 - ToInt(e, spos + n3, n3)
                          ELSE ToInt(e, spos + n3, n3)]

RECURSIVE SumSeq(_, _)
\* sum(rolls) from the i-th roll on
SumSeq(rolls, i) == IF i > Len(rolls) THEN 0 ELSE rolls[i] + SumSeq(rolls, i + 1)

\* the DiceResult DiceRoller.roll builds from the parsed expression p and the
\* faces rolled
MkDiceResult(dice_expr, p, rolls) ==
    [total |-> SumSeq(rolls, 1) + p.modifier,
     rolls |-> rolls,
     modifier |-> p.modifier,
     dice_expr |-> dice_expr,
     natural_20 |-> p.die_size = 20 /\ p.num_dice = 1 /\ rolls[1] = 20,
     natural_1 |-> p.die_size = 20 /\ p.num_dice = 1 /\ rolls[1] = 1]

\* DiceRoller.roll: every DiceResult the random faces can give
Roll(expression) ==
    LET p == ParseDice(expression)
    IN IF ~p.matched
       THEN {}   \* ValueError: invalid dice expression
       ELSE LET dice_expr == Normalize(expression)
            IN { MkDiceResult(dice_expr, p, rolls) :
                   rolls \in [1..p.num_dice -> 1..p.die_size] }

D20 == <<"1", "d", "2", "0">>

\* DiceRoller.roll("1d20"): every DiceResult
D20Rolls == Roll(D20)

(***************************************************************************)
(* engine/rules_engine.py: skill checks, ability checks and saving throws. *)
(* Ability and skill names are str, the sequences of their characters.     *)
(***************************************************************************)
\* str.replace(old, new) for single characters
ReplaceChar(s, old, new) == AsList([i \in 1..Len(s) |-> IF s[i] = old THEN new ELSE s[i]])

RECURSIVE RemoveSub(_, _, _)
\* str.replace(sub, '') from position i on
RemoveSub(sub, s, i) ==
    IF i > Len(s) THEN <<>>
    ELSE IF OccursAt(sub, s, i) THEN RemoveSub(sub, s, i + Len(sub))
    ELSE <<s[i]>> \o RemoveSub(sub, s, i + 1)

SKILL_ABILITY_MAP ==
    ("acrobatics" :> "dex") @@ ("animal-handling" :> "wis") @@ ("arcana" :> "int")
    @@ ("athletics" :> "str") @@ ("deception" :> "cha") @@ ("history" :> "int")
    @@ ("insight" :> "wis") @@ ("intimidation" :> "cha")
    @@ ("investigation" :> "int") @@ ("medicine" :> "wis") @@ ("nature" :> "int")
    @@ ("perception" :> "wis") @@ ("performance" :> "cha")
    @@ ("persuasion" :> "cha") @@ ("religion" :> "int")
    @@ ("sleight-of-hand" :> "dex") @@ ("stealth" :> "dex") @@ ("survival" :> "wis")

\* the characters a RulesEngine is bound to
CheckCharacters ==
    { [name |-> "Aric",
       ability_scores |-> [str |-> 10, dex |-> 14, con |-> 12, int |-> 9,
                           wis |-> 13, cha |-> 8],
       proficiency_bonus |-> 2,
       skills |-> << <<"S", "t", "e", "a", "l", "t", "h">> >>,
       saving_throws |-> << <<"s", "a", "v", "i", "n", "g", "_", "t", "h", "r",
                              "o", "w", "_", "d", "e", "x">> >>],
      [name |-> "Brom",
       ability_scores |-> [str |-> 18, dex |-> 7, con |-> 16, int |-> 10,
                           wis |-> 10, cha |-> 10],
       proficiency_bonus |-> 3,
       skills |-> << <<"s", "l", "e", "i", "g", "h", "t", "_", "o", "f", "_",
                       "h", "a", "n", "d">> >>,
       saving_throws |-> << <<"S", "T", "R">> >>] }

\* CheckEngine.get_ability_modifier
get_ability_modifier(ch, ability) ==
    LET attribute == Concat(Lower(ability))
        score == IF attribute \in DOMAIN ch.ability_scores
                 THEN ch.ability_scores[attribute] ELSE 10
    IN (score - 10) \div 2

\* CheckEngine.get_skill_modifier
get_skill_modifier(ch, skill) ==
    LET skill_normalized == ReplaceChar(ReplaceChar(Lower(skill), " ", "-"), "_", "-")
        key == Concat(skill_normalized)
        ability == IF key \in DOMAIN SKILL_ABILITY_MAP THEN SKILL_ABILITY_MAP[key]
                   ELSE "int"
        modifier == (ch.ability_scores[ability] - 10) \div 2
        proficient == \E i \in 1..Len(ch.skills) :
                         ReplaceChar(Lower(ch.skills[i]), "_", "-") = skill_normalized
    IN IF proficient THEN modifier + ch.proficiency_bonus ELSE modifier

\* the modifier of CheckEngine.saving_throw
SavingThrowModifier(ch, ability) ==
    LET ability_lower == Lower(ability)
        proficient ==
            \E i \in 1..Len(ch.saving_throws) :
               RemoveSub(<<"s", "a", "v", "i", "n", "g", "-", "t", "h", "r", "o", "w", "-">>,
                         ReplaceChar(Lower(ch.saving_throws[i]), "_", "-"), 1)
               = ability_lower
    IN IF proficient THEN get_ability_modifier(ch, ability) + ch.proficiency_bonus
       ELSE get_ability_modifier(ch, ability)

\* the modifier of a check: op is the method of the CheckEngine
CheckModifier(op, ch, check_name) ==
    CASE op = "ability_check" -> get_ability_modifier(ch, check_name)
      [] op = "skill_check" -> get_skill_modifier(ch, check_name)
      [] op = "saving_throw" -> SavingThrowModifier(ch, check_name)

\* DiceRoller.roll_with_advantage: (final, roll1, roll2)
roll_with_advantage(roll1, roll2) ==
    [final |-> IF roll1.total >= roll2.total THEN roll1 ELSE roll2,
     thrown |-> <<roll1, roll2>>]

\* DiceRoller.roll_with_disadvantage: (final, roll1, roll2)
roll_with_disadvantage(roll1, roll2) ==
    [final |-> IF roll1.total <= roll2.total THEN roll1 ELSE roll2,
     thrown |-> <<roll1, roll2>>]

\* a choice of the d20 in which advantage is looked at first
CheckRolls_advantage_first(advantage, disadvantage, rolls) ==
    IF advantage
    THEN { roll_with_advantage(roll1, roll2) : roll1 \in rolls, roll2 \in rolls }
    ELSE IF disadvantage
    THEN { roll_with_disadvantage(roll1, roll2) : roll1 \in rolls, roll2 \in rolls }
    ELSE { [final |-> roll, thrown |-> <<roll>>] : roll \in rolls }

\* the if/elif/else that chooses the d20 of a check: the roll it uses and the
\* rolls it threw, for every outcome of DiceRoller.roll("1d20") among rolls
CheckRolls(advantage, disadvantage, rolls) ==
    IF advantage /\ ~disadvantage
    THEN { roll_with_advantage(roll1, roll2) : roll1 \in rolls, roll2 \in rolls }
    ELSE IF disadvantage /\ ~advantage
    THEN { roll_with_disadvantage(roll1, roll2) : roll1 \in rolls, roll2 \in rolls }
    ELSE { [final |-> roll, thrown |-> <<roll>>] : roll \in rolls }

\* CheckResult(...)
MkCheckResult(check_type, check_name, dc, roll, modifier) ==
    [success |-> roll.total + modifier >= dc,
     total |-> roll.total + modifier,
     dc |-> dc,
     roll |-> roll,
     modifier |-> modifier,
     check_type |-> check_type,
     check_name |-> check_name,
     critical_success |-> roll.natural_20,
     critical_failure |-> roll.natural_1,
     margin |-> roll.total + modifier - dc]

\* check_type of the CheckResult a method builds
CheckType(op) ==
    CASE op = "ability_check" -> "ability"
      [] op = "skill_check" -> "skill"
      [] op = "saving_throw" -> "save"

\* what a call of the RulesEngine left behind: the arguments, the d20 rolls
\* thrown, and the CheckResult returned or the error raised
MkCheck(op, character_name, advantage, disadvantage, thrown, outcome, result) ==
    [op |-> op, character |-> character_name, advantage |-> advantage,
     disadvantage |-> disadvantage, thrown |-> thrown, outcome |-> outcome,
     result |-> result]

\* RulesEngine.__init__
InitRules ==
    /\ check_engine = <<>>
    /\ check = MkCheck("init", NoneVal, FALSE, FALSE, <<>>, "none", NoneVal)

\* a binding that keeps the character bound first
set_character_once(bound, ch) == IF bound = <<>> THEN <<ch>> ELSE bound

\* RulesEngine.set_character: a new CheckEngine for the character
set_character(bound, ch) == <<ch>>

\* RulesEngine.set_character(character)
SetCharacter(ch) ==
    /\ check_engine' = set_character(check_engine, ch)
    /\ check' = MkCheck("set_character", ch.name, FALSE, FALSE, <<>>, "returned", NoneVal)
    /\ UNCHANGED <<world_vars, dm_vars, combat_vars, file_vars>>

\* RulesEngine.ability_check, skill_check and saving_throw: the property
\* `checks` raises while no character is set, else the CheckEngine resolves
\* the check
Check(op, check_name, dc, advantage, disadvantage, faces) ==
    /\ IF check_engine = <<>>
       THEN check' = MkCheck(op, NoneVal, advantage, disadvantage, <<>>, "raised",
                             "RuntimeError")
       ELSE \E modifier \in {CheckModifier(op, check_engine[1], check_name)} :
            \E rolled \in CheckRolls(advantage, disadvantage,
                                     { r \in D20Rolls : r.rolls[1] \in faces }) :
               check' = MkCheck(op, check_engine[1].name, advantage, disadvantage,
                                rolled.thrown, "returned",
                                MkCheckResult(CheckType(op), check_name, dc,
                                              rolled.final, modifier))
    /\ UNCHANGED <<check_engine, world_vars, dm_vars, combat_vars, file_vars>>

\* the d20 faces drawn for checks
CheckFaces == {1, 8, 20}

\* the ability names callers pass
AbilityNames == { <<"d", "e", "x">>, <<"S", "T", "R">> }

\* the skill names callers pass
SkillNames == { <<"S", "t", "e", "a", "l", "t", "h">>,
                <<"s", "l", "e", "i", "g", "h", "t", " ", "o", "f", " ", "h", "a", "n", "d">> }

\* the difficulty classes callers pass
DifficultyClasses == {5, 15}

\* a RulesEngine whose checks are called
NextChecks ==
    \/ \E ch \in CheckCharacters : SetCharacter(ch)
    \/ \E op \in {"ability_check", "saving_throw"}, check_name \in AbilityNames,
          dc \in DifficultyClasses, advantage \in BOOLEAN, disadvantage \in BOOLEAN :
          Check(op, check_name, dc, advantage, disadvantage, CheckFaces)
    \/ \E check_name \in SkillNames, dc \in DifficultyClasses,
          advantage \in BOOLEAN, disadvantage \in BOOLEAN :
          Check("skill_check", check_name, dc, advantage, disadvantage, CheckFaces)

(***************************************************************************)
(* engine/rules_engine.py: the combat engine.                              *)
(***************************************************************************)
\* CombatEngine.monsters_data: the monster ids of the foundation data
MonsterIds == {"goblin", "rat"}

\* a monster id the foundation data does not hold
UnknownMonster == "dragon"

\* one entry of a monster's 'actions' that has an attack_bonus
MkMonsterAttack(name, bonus, dice, type) ==
    [name |-> name, attack_bonus |-> bonus, damage |-> dice, damage_type |-> type]

\* CombatEngine.get_monster_stats for a known id, with the attacks that
\* create_monster_combatant builds from the stat block (rules_engine.py 475-484)
MonsterStats(monster_id) ==
    IF monster_id = "goblin"
    THEN [name |-> "Goblin", armor_class |-> 13, dexterity |-> 14, hit_points |-> 2,
          attacks |-> << MkMonsterAttack("Scimitar", 4, <<"1", "d", "2", "+", "1">>,
                                         "slashing") >>]
    ELSE [name |-> "Rat", armor_class |-> 10, dexterity |-> 11, hit_points |-> 1,
          attacks |-> << MkMonsterAttack("Bite", 0, <<"1", "d", "2", "-", "1">>,
                                         "piercing") >>]

\* the hp_modifier arguments create_monster_combatant is called with
HpModifiers == {0}

\* the characters a player combatant is created from: Aric, unarmed with
\* STR 10; Brom, STR 8 with a club (1d4) and hardly any armour; Cade, STR 16
\* with a dagger (1d4, finesse) and an armour class no d20 total reaches
Characters ==
    { [name |-> "Aric", hp_current |-> 2, hp_max |-> 2, armor_class |-> 12,
       str |-> 10, dex |-> 14, proficiency_bonus |-> 2, weapons |-> <<>>],
      [name |-> "Brom", hp_current |-> 3, hp_max |-> 4, armor_class |-> 5,
       str |-> 8, dex |-> 10, proficiency_bonus |-> 2,
       weapons |-> << [name |-> "Club", damage_dice |-> <<"1", "d", "4">>,
                       damage_type |-> "bludgeoning", finesse |-> FALSE,
                       ranged |-> FALSE] >>],
      [name |-> "Cade", hp_current |-> 4, hp_max |-> 4, armor_class |-> 25,
       str |-> 16, dex |-> 14, proficiency_bonus |-> 2,
       weapons |-> << [name |-> "Dagger", damage_dice |-> <<"1", "d", "4">>,
                       damage_type |-> "piercing", finesse |-> TRUE,
                       ranged |-> FALSE] >>] }

\* the death-save failures a caller's player combatant carries into a combat
DeathSaveInputs == {0, 3}

\* every face of a d20
AllFaces == { r.rolls[1] : r \in D20Rolls }

\* the d20 faces drawn for initiative rolls
InitiativeFaces == {10, 12}

\* the d20 faces drawn for attack rolls where the combat flow is explored
SampleFaces == {1, 15}

\* the fields of an AttackResult
AttackFields ==
    {"hit", "critical", "fumble", "attack_roll", "attack_total", "attack_bonus",
     "target_ac", "attacker", "target", "attack_data", "damage", "damage_roll",
     "crit_roll"}

\* the Combatant id "player" and the ids f"{monster_id}_{n}", as pairs
PlayerId == <<"player", -1>>

\* (score - 10) // 2
AbilityModifier(score) == (score - 10) \div 2

\* Combatant(...) with the dataclass defaults for the fields not given
MkCombatant(id, name, hp_current, hp_max, ac, init_mod, is_player, attacks) ==
    [id |-> id, name |-> name, hp_current |-> hp_current, hp_max |-> hp_max,
     armor_class |-> ac, initiative |-> 0, initiative_modifier |-> init_mod,
     is_player |-> is_player, attacks |-> attacks, is_conscious |-> TRUE,
     death_saves_success |-> 0, death_saves_failure |-> 0]

\* CombatEngine.create_monster_combatant for a known monster id
create_monster_combatant(monster_id, name, hp_modifier) ==
    LET monster == MonsterStats(monster_id)
        hp == monster.hit_points + hp_modifier
    IN MkCombatant(<<monster_id, Len(comb_keys)>>,
                   IF name = <<>> THEN <<monster.name>> ELSE name,
                   hp, hp, monster.armor_class,
                   AbilityModifier(monster.dexterity), FALSE, monster.attacks)

\* the attack create_player_combatant builds for one equipped weapon
WeaponAttack(ch, weapon) ==
    LET dex_mod == AbilityModifier(ch.dex)
        str_mod == AbilityModifier(ch.str)
        attack_mod == IF weapon.finesse THEN Max2(str_mod, dex_mod)
                      ELSE IF weapon.ranged THEN dex_mod ELSE str_mod
    IN [name |-> weapon.name, attack_bonus |-> attack_mod + ch.proficiency_bonus,
        damage |-> weapon.damage_dice, damage_type |-> weapon.damage_type,
        damage_modifier |-> attack_mod]

\* CombatEngine.create_player_combatant
create_player_combatant(ch) ==
    LET attacks ==
          IF Len(ch.weapons) > 0
          THEN AsList([i \in 1..Len(ch.weapons) |-> WeaponAttack(ch, ch.weapons[i])])
          ELSE << [name |-> "Unarmed Strike",
                   attack_bonus |-> AbilityModifier(ch.str) + ch.proficiency_bonus,
                   damage |-> <<"1">>, damage_type |-> "bludgeoning",
                   damage_modifier |-> AbilityModifier(ch.str)] >>
    IN MkCombatant(PlayerId, <<ch.name>>, ch.hp_current, ch.hp_max, ch.armor_class,
                   AbilityModifier(ch.dex), TRUE, attacks)

\* a test that counts a combatant at 0 HP as dead, death saves or not
is_alive_by_hp(c) == c.hp_current > 0

\* Combatant.is_alive
is_alive(c) == c.hp_current > 0 \/ (c.is_player /\ c.death_saves_failure < 3)

\* a take_damage that subtracts the whole amount
take_damage_unclamped(c, amount) ==
    LET hp == c.hp_current - amount
    IN IF hp <= 0
       THEN [c EXCEPT !.hp_current = hp, !.is_conscious = FALSE]
       ELSE [c EXCEPT !.hp_current = hp]

\* Combatant.take_damage: the combatant after the damage
take_damage(c, amount) ==
    LET actual == Min2(amount, c.hp_current)
        hp == c.hp_current - actual
    IN IF hp <= 0
       THEN [c EXCEPT !.hp_current = 0, !.is_conscious = FALSE]
       ELSE [c EXCEPT !.hp_current = hp]

\* Combatant.heal: the combatant after the healing
heal(c, amount) ==
    LET actual == Min2(amount, c.hp_max - c.hp_current)
        hp == c.hp_current + actual
    IN IF ~c.is_conscious /\ hp > 0
       THEN [c EXCEPT !.hp_current = hp, !.is_conscious = TRUE,
                      !.death_saves_success = 0, !.death_saves_failure = 0]
       ELSE [c EXCEPT !.hp_current = hp]

\* self.combatants[c.id] = c for each combatant of a list, from the i-th on:
\* the dict and the order of its keys
RECURSIVE Register(_, _, _, _)
Register(dict, keys, list, i) ==
    IF i > Len(list) THEN [dict |-> dict, keys |-> keys]
    ELSE Register(DictSet(dict, list[i].id, list[i]),
                  IF InList(list[i].id, keys) THEN keys ELSE Append(keys, list[i].id),
                  list, i + 1)

\* a sort that puts a key before the keys of equal initiative
InsertSorted_unstable(order, key, dict) ==
    LET k == Cardinality({ i \in 1..Len(order) :
                             dict[order[i]].initiative > dict[key].initiative })
    IN SubSeq(order, 1, k) \o <<key>> \o SubSeq(order, k + 1, Len(order))

\* where sorted(..., reverse=True) puts a key among those already placed:
\* behind every key whose initiative is not smaller (a stable sort)
InsertSorted(order, key, dict) ==
    LET k == Cardinality({ i \in 1..Len(order) :
                             dict[order[i]].initiative >= dict[key].initiative })
    IN SubSeq(order, 1, k) \o <<key>> \o SubSeq(order, k + 1, Len(order))

RECURSIVE SortByInitiative(_, _, _)
\* sorted(self.combatants.keys(), key=initiative, reverse=True): the first i keys
SortByInitiative(keys, i, dict) ==
    IF i = 0 THEN <<>>
    ELSE InsertSorted(SortByInitiative(keys, i - 1, dict), keys[i], dict)

RECURSIVE RollInitiative(_, _, _, _)
\* the loop "for c in self.combatants.values()" of start_combat, from the i-th
\* key on: each combatant gets the initiative of its d20 face
RollInitiative(dict, keys, faces, i) ==
    IF i > Len(keys) THEN dict
    ELSE RollInitiative(
            [dict EXCEPT ![keys[i]].initiative =
                            faces[keys[i]] + dict[keys[i]].initiative_modifier],
            keys, faces, i + 1)

\* CombatEngine.start_combat up to the sort: the combatants registered, each
\* with its initiative
RegisterAndRoll(player_combatant, enemy_combatants, faces) ==
    LET reg == Register(EmptyDict, <<>>, <<player_combatant>> \o enemy_combatants, 1)
    IN [dict |-> RollInitiative(reg.dict, reg.keys, faces, 1), keys |-> reg.keys]

\* CombatEngine.get_current_combatant on given fields: a set with the combatant,
\* empty for None
CurrentCombatant(order, index, dict) ==
    IF Len(order) = 0 THEN {}
    ELSE IF order[index + 1] \in DOMAIN dict THEN {dict[order[index + 1]]} ELSE {}

\* a skip test that lets an unconscious combatant act
CanAct_alive(order, index, dict) ==
    \E c \in CurrentCombatant(order, index, dict) : is_alive(c)

\* the test "current and current.is_alive and current.is_conscious"
CanAct(order, index, dict) ==
    \E c \in CurrentCombatant(order, index, dict) : is_alive(c) /\ c.is_conscious

RECURSIVE SkipLoop_same_round(_, _, _)
\* a skip loop that wraps the index without counting a new round
SkipLoop_same_round(index, rnd, attempts) ==
    IF attempts < Len(turn_order)
    THEN IF CanAct(turn_order, index, combatants)
         THEN [index |-> index, round |-> rnd, attempts |-> attempts]
         ELSE SkipLoop_same_round((index + 1) % Len(turn_order), rnd, attempts + 1)
    ELSE [index |-> index, round |-> rnd, attempts |-> attempts]

RECURSIVE SkipLoop(_, _, _)
\* the while loop of next_turn: the index, round and attempts it ends with
SkipLoop(index, rnd, attempts) ==
    IF attempts < Len(turn_order)
    THEN IF CanAct(turn_order, index, combatants)
         THEN [index |-> index, round |-> rnd, attempts |-> attempts]
         ELSE LET nxt == (index + 1) % Len(turn_order)
              IN SkipLoop(nxt, IF nxt = 0 THEN rnd + 1 ELSE rnd, attempts + 1)
    ELSE [index |-> index, round |-> rnd, attempts |-> attempts]

\* CombatEngine.next_turn: the index, round and attempts it ends with
next_turn ==
    LET i1 == current_turn_index + 1
        wrapped == i1 >= Len(turn_order)
    IN SkipLoop(IF wrapped THEN 0 ELSE i1, IF wrapped THEN round + 1 ELSE round, 0)

\* a hit decision that compares the total only
AttackHits_total(attack_roll, attack_total, target_ac) == attack_total >= target_ac

\* the hit decision of CombatEngine.attack
AttackHits(attack_roll, attack_total, target_ac) ==
    attack_roll.natural_20
       \/ (~attack_roll.natural_1 /\ attack_total >= target_ac)

\* attack_data.get('damage_modifier', 0)
DamageModifier(attack_data) ==
    IF "damage_modifier" \in DOMAIN attack_data THEN attack_data.damage_modifier ELSE 0

\* the expression CombatEngine.attack rolls for damage (rules_engine.py 725-727)
DamageExpression(attack_data) ==
    LET damage_expr == attack_data.damage
        damage_mod == DamageModifier(attack_data)
    IN IF damage_mod # 0 /\ ~InList("+", damage_expr) /\ ~InList("-", damage_expr)
       THEN damage_expr \o <<"+">> \o IntToChars(damage_mod)
       ELSE damage_expr

\* the damage branch of CombatEngine.attack (rules_engine.py 709-738): every
\* (damage, damage_roll, crit_roll) the dice can give; crit_roll is <<>> when
\* no second roll is made
DamageOutcomes(attack_data, critical) ==
    IF IsDigitString(attack_data.damage)
    THEN LET base == ToInt(attack_data.damage, Len(attack_data.damage),
                           Len(attack_data.damage))
             damage == Max2(1, base + DamageModifier(attack_data))
         IN { [damage |-> Max2(1, damage),
               damage_roll |-> [total |-> damage, rolls |-> <<base>>,
                                modifier |-> DamageModifier(attack_data),
                                dice_expr |-> attack_data.damage,
                                natural_20 |-> FALSE, natural_1 |-> FALSE],
               crit_roll |-> <<>>] }
    ELSE IF critical
    THEN { [damage |-> Max2(1, r.total + c.total), damage_roll |-> r,
            crit_roll |-> <<c>>] :
             r \in Roll(DamageExpression(attack_data)), c \in Roll(attack_data.damage) }
    ELSE { [damage |-> Max2(1, r.total), damage_roll |-> r, crit_roll |-> <<>>] :
             r \in Roll(DamageExpression(attack_data)) }

\* CombatEngine.__init__
InitCombat ==
    /\ phase = "not_in_combat"
    /\ combatants = EmptyDict
    /\ comb_keys = <<>>
    /\ turn_order = <<>>
    /\ current_turn_index = 0
    /\ round = 0
    /\ enemies = <<>>
    /\ cret = [op |-> "init"]

\* the given fields of a returned record
Keep(record, fields) == [f \in fields |-> record[f]]

\* an id that is no key of CombatEngine.combatants
UnknownCombatant == <<"nobody", -1>>

\* CombatEngine.create_monster_combatant(monster_id, name, hp_modifier); the
\* caller builds the enemy list of an encounter while the engine holds no
\* combat, appends the combatant to it, and names the k-th enemy of the list
\* after its place or leaves the name out
CreateMonsterCombatant(monster_id, named, hp_modifier) ==
    /\ phase = "not_in_combat"
    /\ Len(enemies) < MaxEnemies
    /\ IF monster_id \notin MonsterIds
       THEN /\ cret' = [op |-> "create_monster_combatant", created |-> <<>>]
            /\ UNCHANGED enemies
       ELSE LET c == create_monster_combatant(monster_id,
                        IF named THEN <<MonsterStats(monster_id).name, Len(enemies) + 1>>
                        ELSE <<>>, hp_modifier)
            IN /\ enemies' = Append(enemies, c)
               /\ cret' = [op |-> "create_monster_combatant", created |-> <<c>>]
    /\ UNCHANGED <<phase, combatants, comb_keys, turn_order, current_turn_index,
                   round, world_vars, dm_vars, rules_vars, file_vars>>

\* CombatEngine.start_combat(player_combatant, enemy_combatants) with the
\* caller's enemy list; the d20 of each initiative roll is one of faces
StartCombat(ch, saves, faces) ==
    LET player == [create_player_combatant(ch) EXCEPT !.death_saves_failure = saves]
        keys == Register(EmptyDict, <<>>, <<player>> \o enemies, 1).keys
    IN \E rolled \in [Range(keys) -> faces] :
          LET reg == RegisterAndRoll(player, enemies, rolled)
          IN /\ combatants' = reg.dict
             /\ comb_keys' = reg.keys
             /\ round' = 1
             /\ turn_order' = SortByInitiative(reg.keys, Len(reg.keys), reg.dict)
             /\ current_turn_index' = 0
             /\ phase' = "combat_active"
             /\ enemies' = <<>>
             /\ cret' = [op |-> "start_combat",
                         phases |-> <<"rolling_initiative", "combat_active">>,
                         initiative_rolls |-> rolled,
                         supplied |-> AsList([i \in 1..(1 + Len(enemies)) |->
                                                 (<<player>> \o enemies)[i].id]),
                         names |-> AsList([i \in 1..(1 + Len(enemies)) |->
                                              (<<player>> \o enemies)[i].name])]
             /\ UNCHANGED <<world_vars, dm_vars, rules_vars, file_vars>>

\* CombatEngine.next_turn()
NextTurn ==
    /\ round < MaxRound
    /\ current_turn_index' = next_turn.index
    /\ round' = next_turn.round
    /\ cret' = [op |-> "next_turn", attempts |-> next_turn.attempts,
                ended |-> CurrentCombatant(turn_order, next_turn.index, combatants) = {}]
    /\ UNCHANGED <<phase, combatants, comb_keys, turn_order, enemies, world_vars, dm_vars, rules_vars, file_vars>>

\* CombatEngine.attack(attacker_id, target_id, attack_index); the d20 of the
\* attack roll is one of faces, and cret keeps the given fields of the
\* AttackResult
Attack(attacker_id, target_id, attack_index, faces, fields) ==
    /\ IF attacker_id \notin DOMAIN combatants \/ target_id \notin DOMAIN combatants
       THEN /\ cret' = [op |-> "attack", error |-> "invalid_attacker_or_target"]
            /\ UNCHANGED combatants
       ELSE IF Len(combatants[attacker_id].attacks) = 0
       THEN /\ cret' = [op |-> "attack", error |-> "no_attacks"]
            /\ UNCHANGED combatants
       ELSE LET attacker == combatants[attacker_id]
                target == combatants[target_id]
                attack_data ==
                    attacker.attacks[Min2(attack_index, Len(attacker.attacks) - 1) + 1]
            IN \E normal_damage \in {DamageOutcomes(attack_data, FALSE)},
                  critical_damage \in {DamageOutcomes(attack_data, TRUE)},
                  attack_roll \in { r \in D20Rolls : r.rolls[1] \in faces } :
                  LET attack_total == attack_roll.total + attack_data.attack_bonus
                      hit == AttackHits(attack_roll, attack_total, target.armor_class)
                      kept == fields \cup {"op", "error"}
                      result == [op |-> "attack", error |-> NoneVal, hit |-> hit,
                                 critical |-> attack_roll.natural_20,
                                 fumble |-> attack_roll.natural_1,
                                 attack_roll |-> attack_roll,
                                 attack_total |-> attack_total,
                                 attack_bonus |-> attack_data.attack_bonus,
                                 target_ac |-> target.armor_class,
                                 attacker |-> attacker_id, target |-> target_id,
                                 attack_data |-> attack_data]
                  IN IF hit
                     THEN \E d \in IF attack_roll.natural_20 THEN critical_damage
                                     ELSE normal_damage :
                             /\ cret' = Keep(result @@ [damage |-> d.damage,
                                                        damage_roll |-> <<d.damage_roll>>,
                                                        crit_roll |-> d.crit_roll],
                                              kept)
                             /\ combatants' = [combatants EXCEPT ![target_id] =
                                                  take_damage(target, d.damage)]
                     ELSE /\ cret' = Keep(result @@ [damage |-> 0,
                                                        damage_roll |-> <<>>,
                                                        crit_roll |-> <<>>], kept)
                          /\ UNCHANGED combatants
    /\ UNCHANGED <<phase, comb_keys, turn_order, current_turn_index, round, enemies,
                   world_vars, dm_vars, rules_vars, file_vars>>

\* the two any() of CombatEngine.check_combat_end
SideAlive(is_player) ==
    \E id \in DOMAIN combatants :
        combatants[id].is_player = is_player /\ is_alive(combatants[id])

\* a check that looks at the enemies first
check_combat_end_victory_first ==
    IF ~SideAlive(FALSE) THEN [ended |-> TRUE, message |-> "VICTORY"]
    ELSE IF ~SideAlive(TRUE) THEN [ended |-> TRUE, message |-> "DEFEAT"]
    ELSE [ended |-> FALSE, message |-> ""]

\* CombatEngine.check_combat_end: what it returns
check_combat_end ==
    IF ~SideAlive(TRUE) THEN [ended |-> TRUE, message |-> "DEFEAT"]
    ELSE IF ~SideAlive(FALSE) THEN [ended |-> TRUE, message |-> "VICTORY"]
    ELSE [ended |-> FALSE, message |-> ""]

\* CombatEngine.check_combat_end()
CheckCombatEnd ==
    /\ phase' = IF check_combat_end.ended THEN "combat_ended" ELSE phase
    /\ cret' = [op |-> "check_combat_end", ended |-> check_combat_end.ended,
                message |-> check_combat_end.message]
    /\ UNCHANGED <<combatants, comb_keys, turn_order, current_turn_index, round,
                   enemies, world_vars, dm_vars, rules_vars, file_vars>>

\* a summary read after the combat state is cleared
CombatSummary_cleared ==
    [rounds |-> 0, enemies_defeated |-> <<>>, xp_earned |-> 0,
     player_hp_remaining |-> 0]

\* the summary CombatEngine.end_combat returns
CombatSummary ==
    LET defeated == SelectSeq(comb_keys,
                       LAMBDA id : ~combatants[id].is_player /\ ~is_alive(combatants[id]))
        players == SelectSeq(comb_keys, LAMBDA id : combatants[id].is_player)
    IN [rounds |-> round,
        enemies_defeated |->
            AsList([i \in 1..Len(defeated) |-> combatants[defeated[i]].name]),
        xp_earned |-> Len(defeated) * 50,
        player_hp_remaining |->
            IF Len(players) = 0 THEN 0 ELSE combatants[players[1]].hp_current]

\* CombatEngine.end_combat()
EndCombat ==
    /\ phase' = "not_in_combat"
    /\ cret' = [op |-> "end_combat", summary |-> CombatSummary]
    /\ combatants' = EmptyDict
    /\ comb_keys' = <<>>
    /\ turn_order' = <<>>
    /\ current_turn_index' = 0
    /\ round' = 0
    /\ UNCHANGED <<enemies, world_vars, dm_vars, rules_vars, file_vars>>

\* Combatant.take_damage(amount) called on a registered combatant
TakeDamage(id, amount) ==
    /\ combatants' = [combatants EXCEPT ![id] = take_damage(@, amount)]
    /\ cret' = [op |-> "take_damage",
                actual |-> Min2(amount, combatants[id].hp_current)]
    /\ UNCHANGED <<phase, comb_keys, turn_order, current_turn_index, round, enemies,
                   world_vars, dm_vars, rules_vars, file_vars>>

\* Combatant.heal(amount) called on a registered combatant
Heal(id, amount) ==
    /\ combatants' = [combatants EXCEPT ![id] = heal(@, amount)]
    /\ cret' = [op |-> "heal",
                actual |-> Min2(amount, combatants[id].hp_max - combatants[id].hp_current)]
    /\ UNCHANGED <<phase, comb_keys, turn_order, current_turn_index, round, enemies,
                   world_vars, dm_vars, rules_vars, file_vars>>

\* the hp_modifier values of an encounter's enemies (EncounterEnemy.hp_modifier),
\* weaker and tougher variants of a monster
HpAdjustments == {-3, -1, 0, 1}

\* the amounts of damage and healing take_damage and heal are called with
Amounts == {0, 1, 3}

\* the character of the sessions whose combat flow is explored
FlowCharacters == { ch \in Characters : ch.name = "Aric" }

\* the combat engine driven through whole combats
NextCombat ==
    \/ \E monster_id \in MonsterIds \cup {UnknownMonster}, hp_modifier \in HpModifiers :
          CreateMonsterCombatant(monster_id, FALSE, hp_modifier)
    \/ \E ch \in FlowCharacters, saves \in DeathSaveInputs :
          StartCombat(ch, saves, InitiativeFaces)
    \/ NextTurn
    \/ \E attacker_id \in DOMAIN combatants,
          target_id \in DOMAIN combatants \cup {UnknownCombatant} :
          Attack(attacker_id, target_id, 0, SampleFaces, {"hit"})
    \/ CheckCombatEnd
    \/ EndCombat

\* the combat engine driven through the attacks of one combat, every face of
\* the d20 drawn
NextAttack ==
    \/ \E monster_id \in MonsterIds, named \in BOOLEAN, hp_modifier \in HpModifiers :
          enemies = <<>> /\ CreateMonsterCombatant(monster_id, named, hp_modifier)
    \/ \E ch \in Characters : phase = "not_in_combat" /\ StartCombat(ch, 0, {10})
    \/ \E attacker_id, target_id \in DOMAIN combatants :
          /\ attacker_id # target_id
          /\ Attack(attacker_id, target_id, 1, AllFaces, AttackFields)

\* the Combatant objects of one combat: created, registered, attacked, damaged
\* and healed
NextCombatant ==
    \/ \E monster_id \in MonsterIds, hp_modifier \in HpAdjustments :
          enemies = <<>> /\ CreateMonsterCombatant(monster_id, FALSE, hp_modifier)
    \/ \E ch \in Characters, saves \in DeathSaveInputs :
          phase = "not_in_combat" /\ StartCombat(ch, saves, {10})
    \/ \E attacker_id, target_id \in DOMAIN combatants :
          Attack(attacker_id, target_id, 0, SampleFaces, {"hit"})
    \/ \E id \in DOMAIN combatants, amount \in Amounts : TakeDamage(id, amount)
    \/ \E id \in DOMAIN combatants, amount \in Amounts : Heal(id, amount)

Init == InitWorld /\ InitResponse /\ InitRules /\ InitCombat

\* a session whose character carries nothing, for the combat engine
InitEngines == Init /\ character.inventory = <<>>

\* a session whose character carries a rope, for the DM engine
InitSession == Init /\ character.inventory = <<"rope">>

Next ==
    \/ NextWorld \/ NextPersistence \/ NextDM \/ NextSpeaker \/ NextConditions
    \/ NextRelationships
    \/ NextChecks
    \/ NextCombat \/ NextAttack \/ NextCombatant

Spec == Init /\ [][Next]_vars

\* the StateManager alone, beside a combat engine nobody calls
SpecWorld == Init /\ [][NextWorld]_vars

\* the combat engine alone, beside a StateManager nobody calls
SpecCombat == InitEngines /\ [][NextCombat]_vars

\* the attacks of one combat
SpecAttack == InitEngines /\ [][NextAttack]_vars

\* the combatants of one combat
SpecCombatant == InitEngines /\ [][NextCombatant]_vars

\* the DM engine over the StateManager
SpecDM == InitSession /\ [][NextDM]_vars

\* the DM engine in a session whose character carries nothing
SpecDMEmptyHanded == InitEngines /\ [][NextDM]_vars

\* the speaker validation of the DM engine
SpecSpeaker == InitSession /\ [][NextSpeaker]_vars

\* the conditions of the StateManager
SpecConditions == InitEngines /\ [][NextConditions]_vars

\* the relationships of the StateManager
SpecRelationships == InitEngines /\ [][NextRelationships]_vars

\* saving and loading a session
SpecPersistence == InitEngines /\ [][NextPersistence]_vars

\* the checks of the RulesEngine
SpecChecks == InitEngines /\ [][NextChecks]_vars

(***************************************************************************)
(* Properties of the StateManager.                                         *)
(***************************************************************************)
\* the step just taken was a call op(arg)
Called(op, arg) == ret'.op = op /\ ret'.arg = arg

\* the disposition execute_significant_action reads for an NPC
DispositionOf(gs, npc_id) ==
    IF npc_id \in DOMAIN gs.relationships
    THEN gs.relationships[npc_id].disposition
    ELSE NewRelationship(npc_id).disposition

\* some precondition of the action does not hold in the current state
Unmet(a) ==
    \/ \E i \in 1..Len(a.requires_flags) : ~has_flag(game_state, a.requires_flags[i])
    \/ \E i \in 1..Len(a.requires_items) :
          ~InList(a.requires_items[i], character.inventory)
    \/ \E i \in 1..Len(a.requires_relationship) :
          DispositionOf(game_state, a.requires_relationship[i][1])
             < a.requires_relationship[i][2]

\* C1: a call of execute_significant_action on an action of the current node
\* with an unmet flag, item or relationship requirement returns
\* (false, reason, {}) and leaves the whole GameState as it was.
C1_FailureMutatesNothing ==
    [][\A action_id \in ActionIds : \A a \in CurrentAction(action_id) :
          (Called("execute_significant_action", action_id) /\ Unmet(a))
          => /\ ~ret'.ok
             /\ ret'.effects = NoEffects
             /\ game_state' = game_state
             /\ character' = character]_vars

\* the value a relationship scalar has after a delta, within its bounds
Clamped(lo, hi, v) == Max2(lo, Min2(hi, v))

\* C2: when every precondition holds, execute_significant_action applies all
\* declared effects: flags set and cleared, relationship deltas, items granted
\* and removed, the quest started, the objective completed, XP grown.
C2_AllEffectsApplied ==
    [][\A action_id \in ActionIds : \A a \in CurrentAction(action_id) :
          (Called("execute_significant_action", action_id) /\ ~Unmet(a))
          => /\ ret'.ok
             /\ \A i \in 1..Len(a.sets_flags) : has_flag(game_state', a.sets_flags[i])
             /\ \A i \in 1..Len(a.clears_flags) :
                   ~has_flag(game_state', a.clears_flags[i])
             /\ \A i \in 1..Len(a.updates_relationships) :
                   LET u == a.updates_relationships[i]
                       old == get_relationship(game_state, u.npc_id).relationships[u.npc_id]
                       new == game_state'.relationships[u.npc_id]
                   IN /\ new.disposition = Clamped(-100, 100, old.disposition + u.disposition)
                      /\ new.trust = Clamped(0, 100, old.trust + u.trust)
             /\ \A i \in 1..Len(a.grants_items) :
                   InList(a.grants_items[i], character'.inventory)
             /\ \A i \in 1..Len(a.removes_items) :
                   ~InList(a.removes_items[i], character'.inventory)
             /\ a.grants_quest # NoneVal =>
                   \E q \in 1..Len(game_state'.story_progress.quests) :
                      /\ game_state'.story_progress.quests[q].quest_id = a.grants_quest
                      /\ game_state'.story_progress.quests[q].status = "active"
             /\ a.completes_objective # <<>> =>
                   \A p \in ObjectiveHits(game_state', a.completes_objective[1],
                                          a.completes_objective[2]) :
                      \E k \in 1..p[2] :
                         LET o == game_state'.story_progress.quests[p[1]].objectives[k]
                         IN o.id = a.completes_objective[2] /\ o.completed
             /\ character'.experience = character.experience + a.grants_xp]_vars

\* C3: with an active game state move_to_node(id) fails exactly when id is not
\* a key of the node table, and then changes neither location, nodes_visited
\* nor action_history; for every known id it succeeds and makes id the current
\* node, available exit or not.
C3_MoveFailsOnlyOnUnknownNode ==
    [][\A node_id \in NodeIds \cup {UnknownNode} :
          (initialized /\ Called("move_to_node", node_id))
          => /\ ret'.ok <=> node_id \in NodeIds
             /\ ~ret'.ok =>
                   /\ game_state'.location = game_state.location
                   /\ game_state'.nodes_visited = game_state.nodes_visited
                   /\ game_state'.action_history = game_state.action_history
             /\ ret'.ok => game_state'.location.node_id = node_id]_vars

\* a move succeeded although its target was the target of no available exit
C3_Witness ==
    /\ ret.op = "move_to_node" /\ ret.ok /\ ret.anomalous
    /\ game_state.location.node_id = "vault"

\* no node id occurs twice in nodes_visited, and the current node is in it
VisitedIsSet ==
    initialized =>
       /\ \A i, j \in 1..Len(game_state.nodes_visited) :
             game_state.nodes_visited[i] = game_state.nodes_visited[j] => i = j
       /\ InList(game_state.location.node_id, game_state.nodes_visited)

\* C4: after any sequence of successful moves from initialize_new_game,
\* nodes_visited holds no node id twice and holds the current node; each
\* successful move sets previous_node to the node left and appends exactly one
\* action record.
C4_VisitedOnceAndMoveRecorded ==
    /\ []VisitedIsSet
    /\ [][\A node_id \in NodeIds :
             (initialized /\ Called("move_to_node", node_id) /\ ret'.ok)
             => /\ game_state'.location.previous_node = game_state.location.node_id
                /\ game_state'.action_history =
                      Append(game_state.action_history,
                             [action |-> <<"moved_to", node_id>>, details |-> <<>>])]_vars

\* a node was entered a second time: two records of a move to the same node
C4_Witness ==
    /\ initialized
    /\ \E i, j \in 1..Len(game_state.action_history) :
          /\ i < j
          /\ game_state.action_history[i].action = game_state.action_history[j].action
          /\ game_state.action_history[i].action[1] = "moved_to"
    /\ ret.op = "move_to_node" /\ ret.ok

\* the exits of the current node that are always available or whose required
\* flags are all true and whose required items are all held
ExitsThatShouldBeOpen ==
    { e \in Range(NodeExits(game_state.location.node_id)) :
        \/ e.always_available
        \/ /\ \A f \in Range(e.requires_flags) :
                 /\ f \in DOMAIN game_state.story_progress.flags
                 /\ game_state.story_progress.flags[f]
           /\ Range(e.requires_items) \subseteq Range(character.inventory) }

\* the exits of the current node that set_flag(flag, .) alone decides: gated,
\* requiring the flag, every other requirement met
ExitsDecidedBy(flag) ==
    { e \in Range(NodeExits(game_state.location.node_id)) :
        /\ ~e.always_available
        /\ flag \in Range(e.requires_flags)
        /\ \A f \in Range(e.requires_flags) \ {flag} : has_flag(game_state, f)
        /\ Range(e.requires_items) \subseteq Range(character.inventory) }

\* C5: in every reachable state get_available_exits returns exactly the exits
\* of the current node that are always available or have all required flags
\* true and all required items held; an exit gated on a flag is absent until
\* set_flag makes the flag true, present from then and absent once it is cleared.
C5_AvailableExitsExact ==
    /\ [](initialized =>
            /\ Range(get_available_exits) = ExitsThatShouldBeOpen
            /\ Len(get_available_exits) = Cardinality(ExitsThatShouldBeOpen))
    /\ [][\A flag \in FlagNames :
             (initialized /\ Called("set_flag", flag))
             => \A e \in ExitsDecidedBy(flag) :
                   (e \in Range(get_available_exits'))
                      <=> (ret'.msg.what = "True")]_vars

\* the exit to the vault is offered after has_key was set
C5_Witness ==
    /\ initialized
    /\ ret.op = "set_flag" /\ ret.arg = "has_key" /\ ret.msg.what = "True"
    /\ game_state.location.node_id = "tavern"
    /\ \E i \in 1..Len(get_available_exits) : get_available_exits[i].exit_id = "to_vault"


(***************************************************************************)
(* Properties of the combat engine.                                        *)
(***************************************************************************)
\* the step just taken was a call of the combat engine's op
CombatCalled(op) == cret'.op = op

\* no element occurs twice in the list
NoDuplicates(list) ==
    \A i, j \in 1..Len(list) : list[i] = list[j] => i = j

\* C6: after start_combat(player, enemies) the engine is in CombatActive with
\* round 1 and turn pointer 0, and the turn order holds every supplied
\* combatant exactly once: as many entries as combatants were supplied, each
\* supplied combatant among them, none twice.  The enemy lists are those the
\* create_monster_combatant calls before start_combat build, several enemies of
\* one monster id included.
C6_StartCombatHoldsEverySupplied ==
    [][CombatCalled("start_combat")
          => /\ phase' = "combat_active"
             /\ round' = 1
             /\ current_turn_index' = 0
             /\ Len(turn_order') = Len(cret'.supplied)
             /\ \A i \in 1..Len(cret'.supplied) : InList(cret'.supplied[i], turn_order')
             /\ NoDuplicates(turn_order')]_vars

\* alive and conscious, as Combatant.is_alive and is_conscious say
AliveAndConscious(c) ==
    /\ c.hp_current > 0 \/ (c.is_player /\ c.death_saves_failure < 3)
    /\ c.is_conscious

\* the combatant at a position of the turn order can act
ActsAt(order, index, dict) ==
    /\ index < Len(order)
    /\ order[index + 1] \in DOMAIN dict
    /\ AliveAndConscious(dict[order[index + 1]])

\* C7: next_turn terminates, its skip loop going round the turn order at most
\* once; the positions it passes hold dead or unconscious combatants only; and
\* when some combatant is alive and conscious the turn pointer ends on a
\* combatant that is alive and conscious.
C7_NextTurnSkipsWithinOneLap ==
    [][CombatCalled("next_turn")
          => LET n == Len(turn_order)
                 first == IF current_turn_index + 1 >= n THEN 0
                          ELSE current_turn_index + 1
             IN /\ cret'.attempts <= n
                /\ n > 0 => current_turn_index' = (first + cret'.attempts) % n
                /\ \A k \in 0..(cret'.attempts - 1) :
                      ~ActsAt(turn_order, (first + k) % n, combatants)
                /\ (\E id \in DOMAIN combatants : AliveAndConscious(combatants[id]))
                      => ActsAt(turn_order', current_turn_index', combatants')]_vars

\* next_turn passed a combatant that cannot act and stopped at one that can
C7_Witness ==
    /\ cret.op = "next_turn"
    /\ cret.attempts >= 1
    /\ ActsAt(turn_order, current_turn_index, combatants)
    /\ \E id \in DOMAIN combatants : ~AliveAndConscious(combatants[id])

\* C8: attack decides the hit from the d20: a natural 20 is a hit and a
\* critical whatever the armor class, a natural 1 is a miss whatever the bonus
\* and the armor class, and any other face hits exactly when d20 + attack bonus
\* reaches the target's armor class.
C8_HitDecidedByD20 ==
    [][(CombatCalled("attack") /\ cret'.error = NoneVal)
          => LET d20 == cret'.attack_roll.rolls[1]
                 bonus == combatants[cret'.attacker].attacks[1].attack_bonus
                 ac == combatants[cret'.target].armor_class
             IN /\ cret'.attack_total = d20 + bonus
                /\ cret'.target_ac = ac
                /\ d20 = 20 => cret'.hit /\ cret'.critical
                /\ d20 = 1 => ~cret'.hit
                /\ d20 \notin {1, 20} => (cret'.hit <=> d20 + bonus >= ac)
                /\ cret'.critical <=> d20 = 20]_vars

\* a natural 20 whose total stays below the armor class, and hits
C8_Witness ==
    /\ cret.op = "attack"
    /\ cret.error = NoneVal
    /\ cret.attack_roll.rolls[1] = 20
    /\ cret.attack_total < cret.target_ac
    /\ cret.hit
    /\ cret.critical

\* alive as the combat rules say: HP above 0, or a player combatant at 0 HP
\* with fewer than 3 death-save failures
AliveAsStated(c) ==
    c.hp_current > 0 \/ (c.is_player /\ c.hp_current = 0 /\ c.death_saves_failure < 3)

SomePlayerAlive ==
    \E id \in DOMAIN combatants : combatants[id].is_player /\ AliveAsStated(combatants[id])

SomeEnemyAlive ==
    \E id \in DOMAIN combatants : ~combatants[id].is_player /\ AliveAsStated(combatants[id])

\* C9: check_combat_end reports defeat when no player combatant is alive,
\* otherwise victory when no other combatant is alive, otherwise (false, "");
\* with both sides down it is defeat; and the phase becomes CombatEnded exactly
\* when an end is reported, staying as it was otherwise.
C9_CombatEndDecision ==
    [][CombatCalled("check_combat_end")
          => /\ ~SomePlayerAlive => cret'.ended /\ cret'.message = "DEFEAT"
             /\ (SomePlayerAlive /\ ~SomeEnemyAlive)
                   => cret'.ended /\ cret'.message = "VICTORY"
             /\ (SomePlayerAlive /\ SomeEnemyAlive)
                   => ~cret'.ended /\ cret'.message = ""
             /\ cret'.ended => phase' = "combat_ended"
             /\ ~cret'.ended => phase' = phase
             /\ combatants' = combatants]_vars

\* both sides of a combat are down and check_combat_end has reported defeat
C9_Witness ==
    /\ cret.op = "check_combat_end"
    /\ cret.ended
    /\ cret.message = "DEFEAT"
    /\ phase = "combat_ended"
    /\ Len(turn_order) >= 2
    /\ ~SomePlayerAlive
    /\ ~SomeEnemyAlive

\* the ids of the enemies that are not alive
DefeatedIds ==
    { id \in DOMAIN combatants :
        ~combatants[id].is_player /\ ~AliveAsStated(combatants[id]) }

\* C10: end_combat returns a summary of the state before clearing: the current
\* round, the names of the enemies that are not alive, 50 XP for each of them,
\* the player's current HP; and it leaves the engine in NotInCombat with no
\* combatants, an empty turn order, turn pointer 0 and round 0.
C10_EndCombatSummarisesThenClears ==
    [][CombatCalled("end_combat")
          => /\ cret'.summary.rounds = round
             /\ Len(cret'.summary.enemies_defeated) = Cardinality(DefeatedIds)
             /\ Range(cret'.summary.enemies_defeated)
                   = { combatants[id].name : id \in DefeatedIds }
             /\ cret'.summary.xp_earned = 50 * Cardinality(DefeatedIds)
             /\ \A id \in DOMAIN combatants :
                   combatants[id].is_player
                      => cret'.summary.player_hp_remaining = combatants[id].hp_current
             /\ (\A id \in DOMAIN combatants : ~combatants[id].is_player)
                   => cret'.summary.player_hp_remaining = 0
             /\ phase' = "not_in_combat"
             /\ DOMAIN combatants' = {}
             /\ turn_order' = <<>>
             /\ current_turn_index' = 0
             /\ round' = 0]_vars

\* end_combat has closed a combat that ran into a later round with an enemy
\* defeated and the player standing
C10_Witness ==
    /\ cret.op = "end_combat"
    /\ cret.summary.rounds >= 2
    /\ Len(cret.summary.enemies_defeated) >= 1
    /\ cret.summary.xp_earned = 50
    /\ cret.summary.player_hp_remaining >= 1
    /\ phase = "not_in_combat"
    /\ DOMAIN combatants = {}

\* the phase changes the combat rules allow
AllowedPhaseChanges ==
    { <<"not_in_combat", "rolling_initiative">>,
      <<"rolling_initiative", "combat_active">>,
      <<"combat_active", "combat_ended">>,
      <<"combat_ended", "not_in_combat">> }

\* the values self.phase takes over the step just taken, the old one first
PhaseTrail ==
    IF CombatCalled("start_combat") THEN <<phase>> \o cret'.phases ELSE <<phase, phase'>>

\* C11: under any sequence of start_combat, next_turn, attack,
\* check_combat_end and end_combat calls the phase changes only along
\* NotInCombat -> RollingInitiative -> CombatActive -> CombatEnded ->
\* NotInCombat: every change of self.phase a call makes is one of these four.
C11_PhaseFollowsTheCycle ==
    [][\A i \in 1..(Len(PhaseTrail) - 1) :
          PhaseTrail[i] # PhaseTrail[i + 1]
             => <<PhaseTrail[i], PhaseTrail[i + 1]>> \in AllowedPhaseChanges]_vars

\* C11, the example the statement gives: no call takes the phase from
\* CombatActive directly to NotInCombat.
C11_ActiveNeverStraightToNotInCombat ==
    [][~(phase = "combat_active" /\ phase' = "not_in_combat")]_vars

\* every Combatant object there is: those of the caller's enemy list and those
\* registered with the engine
AllCombatants ==
    Range(enemies) \cup { combatants[id] : id \in DOMAIN combatants }

\* C12: for every combatant 0 <= hp_current <= hp_max in every state reached
\* through combatant creation, attack, take_damage and heal; a non-player
\* combatant is not alive exactly when its HP is 0; a player combatant at 0 HP
\* is alive while its death-save failures are below 3.
C12_HpWithinBounds ==
    \A c \in AllCombatants :
       /\ 0 <= c.hp_current
       /\ c.hp_current <= c.hp_max
       /\ ~c.is_player => (~is_alive(c) <=> c.hp_current = 0)
       /\ (c.is_player /\ c.hp_current = 0 /\ c.death_saves_failure < 3) => is_alive(c)

\* C13: an attack that hits reports damage >= 1 and applies it to the target
\* in the same call: the target's HP becomes max(0, previous HP - damage), the
\* target is unconscious exactly when that is 0, and nobody else changes; an
\* attack that misses leaves every combatant as it was.
C13_HitAppliesItsDamage ==
    [][(CombatCalled("attack") /\ cret'.error = NoneVal)
          => LET t == cret'.target
                 left == combatants[t].hp_current - cret'.damage
             IN IF cret'.hit
                THEN /\ cret'.damage >= 1
                     /\ combatants'[t].hp_current = IF left > 0 THEN left ELSE 0
                     /\ ~combatants'[t].is_conscious <=> combatants'[t].hp_current = 0
                     /\ \A id \in DOMAIN combatants \ {t} : combatants'[id] = combatants[id]
                     /\ DOMAIN combatants' = DOMAIN combatants
                ELSE /\ cret'.damage = 0
                     /\ combatants' = combatants]_vars

\* a hit whose damage is more than the target ever had: the HP stops at 0
C13_Witness ==
    /\ cret.op = "attack"
    /\ cret.error = NoneVal
    /\ cret.hit
    /\ cret.damage > combatants[cret.target].hp_max
    /\ combatants[cret.target].hp_current = 0
    /\ ~combatants[cret.target].is_conscious

\* the flat damage modifier of an attack definition: the damage_modifier of a
\* player's weapon attack, the +K or -K of a monster's damage expression
FlatModifier(attack_data) ==
    IF "damage_modifier" \in DOMAIN attack_data
    THEN attack_data.damage_modifier
    ELSE ParseDice(attack_data.damage).modifier

\* C14: on a critical hit with an attack that rolls damage dice, the damage is
\* the faces of two rolls of the attack's damage dice plus the flat damage
\* modifier counted once (and at least 1, as for every hit); for player weapon
\* attacks with a damage_modifier and for monster attacks whose expression
\* carries its own +K or -K.
C14_CriticalDoublesDiceOnly ==
    [][(CombatCalled("attack") /\ cret'.error = NoneVal /\ cret'.critical
          /\ ~IsDigitString(cret'.attack_data.damage))
          => /\ Len(cret'.damage_roll) = 1
             /\ Len(cret'.crit_roll) = 1
             /\ LET sum == SumSeq(cret'.damage_roll[1].rolls, 1)
                           + SumSeq(cret'.crit_roll[1].rolls, 1)
                           + FlatModifier(cret'.attack_data)
                IN cret'.damage = IF sum >= 1 THEN sum ELSE 1]_vars

\* the place of a combatant in the registration: the player, then the enemies
\* in list order
RegisteredAt(supplied, id) ==
    CHOOSE i \in 1..Len(supplied) :
       supplied[i] = id /\ \A j \in 1..(i - 1) : supplied[j] # id

\* C15: the turn order start_combat produces is sorted by initiative total
\* (d20 + initiative modifier), highest first, and two combatants with equal
\* totals stand in registration order: the player first, then the enemies in
\* list order.
C15_TurnOrderSortedAndStable ==
    [][CombatCalled("start_combat")
          => /\ \A id \in DOMAIN combatants' :
                   combatants'[id].initiative
                      = cret'.initiative_rolls[id] + combatants'[id].initiative_modifier
             /\ \A i, j \in 1..Len(turn_order') :
                   i < j =>
                      LET a == combatants'[turn_order'[i]]
                          b == combatants'[turn_order'[j]]
                      IN /\ a.initiative >= b.initiative
                         /\ a.initiative = b.initiative
                               => RegisteredAt(cret'.supplied, a.id)
                                     < RegisteredAt(cret'.supplied, b.id)]_vars

\* a combat of the player and two enemies begun with all three totals equal:
\* the turn order is the registration order
C15_Witness ==
    /\ cret.op = "start_combat"
    /\ Len(turn_order) = 3
    /\ \A id \in DOMAIN combatants :
          combatants[id].initiative = combatants[PlayerId].initiative
    /\ \E id \in DOMAIN combatants :
          cret.initiative_rolls[id] # cret.initiative_rolls[PlayerId]
    /\ turn_order = cret.supplied

(***************************************************************************)
(* Properties of the DM engine.                                            *)
(***************************************************************************)
\* the step just taken was a process_input call
ProcessInputCalled == ret'.op = "process_input"

\* the step just taken was a process_input call, in a session with a game
\* state, whose generator call returned a text
GeneratorAnswered ==
    ProcessInputCalled /\ initialized /\ response'.generator = "returned"

\* C16: for every text the generator returns, process_input returns a response
\* instead of raising, and the speaker of the response is "dm" or an NPC listed
\* as present at the node the player is at, also on turns that trigger a
\* significant action
C16_ResolvedSpeakerNeverRaises ==
    [][GeneratorAnswered =>
          /\ response'.outcome = "returned"
          /\ \/ response'.speaker = "dm"
             \/ InList(response'.speaker, NpcsPresent(game_state.location.node_id))]_vars

\* the step just taken was a process_input call that returned a response
ResponseReturned == ProcessInputCalled /\ response'.outcome = "returned"

\* the intent of the response just returned is aimed at an NPC
AddressedNpc ==
    response'.intent.type = "dialogue" /\ response'.intent.target # NoneVal

\* the response just returned spoke as an NPC, who is now the conversation
\* partner, in dialogue mode
NpcSpeakerTakesOver ==
    response'.speaker # "dm" =>
        /\ game_state'.conversation.current_speaker = response'.speaker
        /\ game_state'.conversation.mode = "dialogue"

\* C17 as stated, for the responses made from a generator output: after
\* process_input a response spoken by an NPC makes that NPC the current speaker
\* in dialogue mode, and a response spoken by the DM to a player who addressed
\* no NPC clears the current speaker and sets exploration mode
C17_DmNarrationClearsSpeaker ==
    [][(ResponseReturned /\ response'.generator = "returned") =>
          /\ NpcSpeakerTakesOver
          /\ (response'.speaker = "dm" /\ ~AddressedNpc) =>
                /\ game_state'.conversation.current_speaker = NoneVal
                /\ game_state'.conversation.mode = "exploration"]_vars

\* what _apply_state_changes does about the speaker (C17): a response spoken by
\* an NPC makes that NPC the current speaker in dialogue mode; a response spoken
\* by the DM clears the current speaker and sets exploration mode only when the
\* player addressed the DM, and leaves speaker and mode as they were otherwise
C17_DmAddressClearsSpeaker ==
    [][ResponseReturned =>
          /\ NpcSpeakerTakesOver
          /\ (response'.speaker = "dm" /\ response'.intent.is_dm_addressed) =>
                /\ game_state'.conversation.current_speaker = NoneVal
                /\ game_state'.conversation.mode = "exploration"
          /\ (response'.speaker = "dm" /\ ~response'.intent.is_dm_addressed) =>
                /\ game_state'.conversation.current_speaker =
                       game_state.conversation.current_speaker
                /\ game_state'.conversation.mode = game_state.conversation.mode]_vars

\* an NPC spoke on the first turn, the player then addressed the DM, the DM
\* answered, and the conversation is back to exploration without a speaker
C17_SpeakerCleared ==
    /\ ret.op = "process_input"
    /\ response.outcome = "returned"
    /\ response.speaker = "dm"
    /\ response.intent.is_dm_addressed
    /\ Len(game_state.conversation.recent_exchanges) = 4
    /\ game_state.conversation.recent_exchanges[2].speaker \in NpcIds
    /\ game_state.conversation.current_speaker = NoneVal
    /\ game_state.conversation.mode = "exploration"

\* the last n entries of a list, all of it when it is shorter
LastEntries(list, n) ==
    IF Len(list) > n THEN SubSeq(list, Len(list) - n + 1, Len(list)) ELSE list

\* the two log entries of the process_input call just made: the player's
\* cleaned line, then the response line
TurnEntries ==
    << [speaker |-> "player", text |-> response'.intent.cleaned_input],
       [speaker |-> response'.speaker, text |-> response'.narration] >>

\* C18: the conversation log never holds more than 10 entries and is always
\* the most recent entries in the order they were added; every process_input
\* whose generator call returned appends exactly two entries, the player's
\* cleaned line first and the response line second
C18_LogKeepsLastTenInPairs ==
    [][ProcessInputCalled =>
          /\ Len(game_state'.conversation.recent_exchanges) <= MaxExchanges
          /\ IF GeneratorAnswered
             THEN game_state'.conversation.recent_exchanges =
                     LastEntries(game_state.conversation.recent_exchanges
                                     \o TurnEntries, MaxExchanges)
             ELSE game_state'.conversation.recent_exchanges =
                     game_state.conversation.recent_exchanges]_vars

\* C19: when the text generator raises during process_input, the failure
\* reaches the caller and the GameState is what it was before the call: flags,
\* relationships map, conversation, location, XP and histories unchanged
C19_GeneratorFailureLeavesState ==
    [][(ProcessInputCalled /\ response'.generator = "raised") =>
          /\ response'.outcome = "raised"
          /\ response'.error = "generator"
          /\ game_state' = game_state
          /\ character' = character]_vars

\* C20: in a session with a game state, a process_input whose intent is
\* classified as a system command returns a DM response without calling the
\* text generator and changes nothing of the GameState: flags, relationships,
\* location, conversation log, action history and character stay as they were
C20_SystemCommandChangesNothing ==
    [][(ProcessInputCalled /\ initialized /\ response'.intent.type = "system") =>
          /\ response'.outcome = "returned"
          /\ response'.speaker = "dm"
          /\ response'.generator = "not_called"
          /\ game_state' = game_state
          /\ character' = character]_vars

\* a system command was answered in a session that has a conversation partner,
\* a log, relationships and a recorded action
C20_Witness ==
    /\ ret.op = "process_input"
    /\ initialized
    /\ response.intent.type = "system"
    /\ response.outcome = "returned"
    /\ response.narration = <<"carrying", "rope">>
    /\ game_state.conversation.current_speaker \in NpcIds
    /\ game_state.conversation.recent_exchanges # <<>>
    /\ DOMAIN game_state.relationships # {}
    /\ game_state.action_history # <<>>

(***************************************************************************)
(* Properties of conditions and relationships.                             *)
(***************************************************************************)
\* a term of a condition as the flags decide it: 'f' is true when flag f is
\* true, '!f' when flag f is false or unset
TermHolds(term, flags) ==
    LET is_true == term.flag \in DOMAIN flags /\ flags[term.flag]
    IN IF term.negated THEN ~is_true ELSE is_true

\* C21: with a game state, check_condition is true exactly when at least one
\* of the ||-separated alternatives of the condition has all of its
\* &&-separated terms true, whatever the flags are and however the
\* alternatives and terms are mixed
C21_ConditionIsOrOfAnds ==
    [][(ret'.op = "check_condition" /\ initialized) =>
          ret'.ok =
            (\E i \in 1..Len(ret'.arg) :
               \A j \in 1..Len(ret'.arg[i]) :
                  TermHolds(ret'.arg[i][j], game_state.story_progress.flags))]_vars

\* 'a && b || !c && d' was found true with a false, c unset and d true:
\* the second alternative alone decides
C21_Witness ==
    /\ ret.op = "check_condition"
    /\ ret.arg = BuildCondition(<<2, 2>>, <<FALSE, FALSE, TRUE, FALSE>>)
    /\ ret.ok
    /\ initialized
    /\ "a" \in DOMAIN game_state.story_progress.flags
    /\ ~game_state.story_progress.flags["a"]
    /\ "c" \notin DOMAIN game_state.story_progress.flags
    /\ "d" \in DOMAIN game_state.story_progress.flags
    /\ game_state.story_progress.flags["d"]

\* the relationship with an NPC before it exists: the defaults it is created with
RelationshipOf(gs, npc_id) ==
    IF npc_id \in DOMAIN gs.relationships THEN gs.relationships[npc_id]
    ELSE NewRelationship(npc_id)

\* C22: every relationship keeps disposition in [-100, 100] and trust in
\* [0, 100]; a modify_relationship whose delta does not cross a bound changes
\* the value by exactly that delta; and every modify_relationship call appends
\* one event record to the history of that NPC
C22_RelationshipsClampedAndRecorded ==
    /\ [](\A npc_id \in DOMAIN game_state.relationships :
            /\ game_state.relationships[npc_id].disposition \in -100..100
            /\ game_state.relationships[npc_id].trust \in 0..100)
    /\ [][(ret'.op = "modify_relationship" /\ ret'.ok) =>
            LET npc_id == ret'.arg.npc_id
                before == RelationshipOf(game_state, npc_id)
                after == game_state'.relationships[npc_id]
            IN /\ before.disposition + ret'.arg.disposition \in -100..100
                    => after.disposition = before.disposition + ret'.arg.disposition
               /\ before.trust + ret'.arg.trust \in 0..100
                    => after.trust = before.trust + ret'.arg.trust
               /\ Len(after.history) = Len(before.history) + 1]_vars

(***************************************************************************)
(* Properties of the checks of the RulesEngine.                            *)
(***************************************************************************)
CheckOps == {"ability_check", "skill_check", "saving_throw"}

\* a check was resolved and returned a CheckResult
CheckReturned == check.op \in CheckOps /\ check.outcome = "returned"

\* the check threw two d20 and used the higher
UsedHigherOfTwo ==
    /\ Len(check.thrown) = 2
    /\ check.result.roll \in Range(check.thrown)
    /\ \A i \in 1..2 : check.result.roll.total >= check.thrown[i].total

\* the check threw two d20 and used the lower
UsedLowerOfTwo ==
    /\ Len(check.thrown) = 2
    /\ check.result.roll \in Range(check.thrown)
    /\ \A i \in 1..2 : check.result.roll.total <= check.thrown[i].total

\* the check threw one d20
UsedSingleRoll == check.thrown = <<check.result.roll>>

\* success, margin and the critical flags follow from the d20 the check used
ResultFollowsRoll ==
    /\ check.result.total = check.result.roll.total + check.result.modifier
    /\ check.result.success = (check.result.total >= check.result.dc)
    /\ check.result.margin = check.result.total - check.result.dc
    /\ check.result.critical_success = (check.result.roll.rolls = <<20>>)
    /\ check.result.critical_failure = (check.result.roll.rolls = <<1>>)

\* C23: a check asked for with advantage, disadvantage asked for as well or
\* not, uses the higher of two d20 rolls, one with disadvantage alone the
\* lower, one with neither a single roll; and in every mode success is
\* roll + modifier >= dc, margin is total - dc, and the critical flags are the
\* natural 20 and natural 1 of the d20 used
C23_AdvantageTakesPrecedence ==
    CheckReturned =>
        /\ check.advantage => UsedHigherOfTwo
        /\ (check.disadvantage /\ ~check.advantage) => UsedLowerOfTwo
        /\ (~check.advantage /\ ~check.disadvantage) => UsedSingleRoll
        /\ ResultFollowsRoll

\* C23 as the code has it: advantage alone uses the higher of two d20 rolls,
\* disadvantage alone the lower, and a check asked for with both, like one
\* asked for with neither, a single roll; in every mode success is
\* roll + modifier >= dc, margin is total - dc, and the critical flags are the
\* natural 20 and natural 1 of the d20 used
C23_AdvantageAndDisadvantageCancel ==
    CheckReturned =>
        /\ (check.advantage /\ ~check.disadvantage) => UsedHigherOfTwo
        /\ (check.disadvantage /\ ~check.advantage) => UsedLowerOfTwo
        /\ (check.advantage = check.disadvantage) => UsedSingleRoll
        /\ ResultFollowsRoll

\* a saving throw asked for with advantage and disadvantage threw one d20, a
\* natural 1, and succeeded on its modifier all the same
C23_Witness ==
    /\ CheckReturned
    /\ check.op = "saving_throw"
    /\ check.advantage /\ check.disadvantage
    /\ Len(check.thrown) = 1
    /\ check.result.critical_failure
    /\ check.result.success
    /\ check.result.margin = 3

\* C24: the RulesEngine is unbound or bound to a character.  While it is
\* unbound every skill_check, ability_check and saving_throw raises, throws no
\* die and returns no result; set_character(c) binds c, whatever was bound
\* before; only set_character changes the binding; and while a character is
\* bound every check is resolved with the modifier of that character
C24_ChecksUseTheBoundCharacter ==
    /\ [][check'.op \in CheckOps =>
            /\ check_engine' = check_engine
            /\ IF check_engine = <<>>
               THEN /\ check'.outcome = "raised"
                    /\ check'.thrown = <<>>
                    /\ check'.result = "RuntimeError"
               ELSE /\ check'.outcome = "returned"
                    /\ check'.character = check_engine[1].name
                    /\ check'.result.modifier =
                         CheckModifier(check'.op, check_engine[1],
                                       check'.result.check_name)]_vars
    /\ [][check'.op = "set_character" =>
            /\ Len(check_engine') = 1
            /\ check_engine'[1] \in CheckCharacters
            /\ check_engine'[1].name = check'.character]_vars
    /\ [][check_engine' # check_engine => check'.op = "set_character"]_vars

\* a strength saving throw was resolved for Brom, with his modifier of 4 and
\* his proficiency bonus of 3
C24_Witness ==
    /\ check.op = "saving_throw"
    /\ check.outcome = "returned"
    /\ check.character = "Brom"
    /\ check.result.check_name = <<"S", "T", "R">>
    /\ check.result.modifier = 7
    /\ Len(check_engine) = 1
    /\ check_engine[1].name = "Brom"

(***************************************************************************)
(* Properties of saving and loading.                                       *)
(***************************************************************************)
\* C25: a load_state that follows a successful save_state of the session
\* succeeds and leaves a GameState equal to the saved one in every component
C25_SaveLoadRoundTrip ==
    [][(ret.op = "save_state" /\ ret.ok /\ ret'.op = "load_state") =>
          /\ ret'.ok
          /\ initialized'
          /\ game_state' = game_state]_vars

(***************************************************************************)
(* Properties of the rounds of a combat.                                   *)
(***************************************************************************)
\* how often a pointer that starts at index and advances by one `advances`
\* times passes the last of n positions and is back at 0
Wraps(index, advances, n) ==
    Cardinality({ k \in 1..advances : (index + k) % n = 0 })

\* C26: in a combat, next_turn advances the turn pointer once and then once
\* for every combatant it skips; each time the pointer passes the last
\* combatant it is back at 0 and round grows by one; no other call but
\* start_combat and end_combat changes round, so round never decreases
\* between them
C26_RoundCountsTheWraps ==
    [][(cret'.op \notin {"start_combat", "end_combat"} /\ Len(turn_order) > 0) =>
          IF cret'.op = "next_turn"
          THEN LET n == Len(turn_order)
                   advances == 1 + cret'.attempts
               IN /\ current_turn_index' = (current_turn_index + advances) % n
                  /\ round' = round + Wraps(current_turn_index, advances, n)
                  /\ round' >= round
          ELSE round' = round]_vars

\* next_turn wrapped while skipping: it ended at position 0 after skipping
\* a combatant, and the round is the second
C26_Witness ==
    /\ cret.op = "next_turn"
    /\ cret.attempts >= 1
    /\ cret.attempts < Len(turn_order)
    /\ current_turn_index = 0
    /\ round = 2
    /\ phase = "combat_active"

(***************************************************************************)
(* Properties of the speaker validation.                                   *)
(***************************************************************************)
\* the NPCs of the NPC table present at the current node
RegisteredPresent ==
    Range(NpcsPresent(game_state.location.node_id)) \cap NpcIds

\* C27: a tag other than DM resolves, over all the NPCs present at the node,
\* to an NPC whose id it is, else to an NPC whose name it is, else to an NPC
\* it matches as a substring, else to the current speaker if present at the
\* node, else to the DM; an exact match is never overridden by a substring
\* match with another present NPC
C27_ExactMatchBeforeSubstring ==
    [][(ret'.op = "validate_speaker" /\ Lower(ret'.arg) # <<"d", "m">>) =>
          LET tag_lower == Lower(ret'.arg)
              by_id == { n \in RegisteredPresent : tag_lower = Lower(IdText(n)) }
              by_name == { n \in RegisteredPresent : tag_lower = Lower(NpcName(n)) }
              by_substring ==
                  { n \in RegisteredPresent :
                      \/ Contains(Lower(IdText(n)), tag_lower)
                      \/ Contains(tag_lower, Lower(NpcName(n))) }
              current == game_state.conversation.current_speaker
          IN IF by_id # {} THEN response'.speaker \in by_id
             ELSE IF by_name # {} THEN response'.speaker \in by_name
             ELSE IF by_substring # {} THEN response'.speaker \in by_substring
             ELSE IF current \in Range(NpcsPresent(game_state.location.node_id))
             THEN response'.speaker = current
             ELSE response'.speaker = "dm"]_vars

(***************************************************************************)
(* Properties of the triggering of significant actions.                    *)
(***************************************************************************)
\* the words longer than 3 characters an action's trigger description shares
\* with the cleaned input
SharedWords(action, cleaned_input) ==
    { w \in WordSet(TriggerDescription(action.action_id)) \cap WordSet(cleaned_input) :
        Len(w) > 3 }

\* the flag and item requirements of an action hold
RequirementsHold(action) ==
    /\ \A i \in 1..Len(action.requires_flags) :
          /\ action.requires_flags[i] \in DOMAIN game_state.story_progress.flags
          /\ game_state.story_progress.flags[action.requires_flags[i]]
    /\ \A i \in 1..Len(action.requires_items) :
          InList(action.requires_items[i], character.inventory)

\* C28: the significant actions a turn treats as triggered share at least two
\* words longer than 3 characters with the cleaned input and have all their
\* required flags true and all their required items in the inventory; the
\* flag, XP and item deltas of the turn come from such actions only
C28_TriggeredActionsMeetRequirements ==
    [][(ProcessInputCalled /\ initialized /\ response'.outcome = "returned"
        /\ response'.generator = "returned") =>
          LET actions == Range(NodeActions(game_state.location.node_id))
              eligible ==
                  { a \in actions :
                      /\ Cardinality(SharedWords(a, response'.intent.cleaned_input)) >= 2
                      /\ RequirementsHold(a) }
              changes == response'.changes
          IN /\ Range(changes.triggered) \subseteq { a.action_id : a \in eligible }
             /\ Range(changes.set_flags)
                  \subseteq UNION { Range(a.sets_flags) : a \in eligible }
             /\ Range(changes.clear_flags)
                  \subseteq UNION { Range(a.clears_flags) : a \in eligible }
             /\ Range(changes.items_gained)
                  \subseteq UNION { Range(a.grants_items) : a \in eligible }
             /\ Range(changes.items_lost)
                  \subseteq UNION { Range(a.removes_items) : a \in eligible }
             /\ changes.xp_gained > 0 => \E a \in eligible : a.grants_xp > 0]_vars

(***************************************************************************)
(* Properties of the combat engine outside and inside a combat.            *)
(***************************************************************************)
\* C29: whenever the phase of the combat engine is NotInCombat, initially and
\* after any calls of start_combat, next_turn, attack, check_combat_end and
\* end_combat, its round is 0, its turn order is empty, its turn pointer is 0
\* and it has no registered combatants
C29_NotInCombatIsClean ==
    phase = "not_in_combat" =>
        /\ round = 0
        /\ turn_order = <<>>
        /\ current_turn_index = 0
        /\ DOMAIN combatants = {}

\* the calls of a combat that C30 is about, start_combat apart
FightCalls == {"attack", "next_turn", "check_combat_end"}

\* C30: attack, next_turn and check_combat_end leave the death-save counters
\* of every combatant as they are, and start_combat registers the enemies
\* with the counters they were created with; so while the player combatant of
\* a combat has fewer than 3 death-save failures, check_combat_end does not
\* report defeat, whatever the player's HP
C30_NoDefeatWithoutDeathSaves ==
    /\ [][cret'.op \in FightCalls =>
            /\ DOMAIN combatants' = DOMAIN combatants
            /\ \A id \in DOMAIN combatants :
                  /\ combatants'[id].death_saves_failure
                        = combatants[id].death_saves_failure
                  /\ combatants'[id].death_saves_success
                        = combatants[id].death_saves_success]_vars
    /\ [][cret'.op = "start_combat" =>
            \A i \in 1..Len(enemies) :
               /\ enemies[i].id \in DOMAIN combatants'
               /\ combatants'[enemies[i].id].death_saves_failure
                     = enemies[i].death_saves_failure]_vars
    /\ [][(cret'.op = "check_combat_end" /\ PlayerId \in DOMAIN combatants
           /\ combatants[PlayerId].is_player
           /\ combatants[PlayerId].death_saves_failure < 3) =>
            cret'.message # "DEFEAT"]_vars

\* check_combat_end found the combat still on, or won, with the player at 0 HP
\* and without a failed death save
C30_Witness ==
    /\ cret.op = "check_combat_end"
    /\ cret.message # "DEFEAT"
    /\ PlayerId \in DOMAIN combatants
    /\ combatants[PlayerId].hp_current = 0
    /\ ~combatants[PlayerId].is_conscious
    /\ combatants[PlayerId].death_saves_failure = 0

====
